---------------------------- MODULE Spec2Model ----------------------------
(* A model of the JSON event encoder of src/json.go: the level gate, the    *)
(* pooled Event builder, the field appenders, the string escaper, the       *)
(* fixed-width timestamp formatter and the terminal calls.                  *)
(* Byte slices and strings are sequences of byte values 0..255.             *)
EXTENDS Integers, Sequences, FiniteSets, TLC

VARIABLES
    pool,      \* epool: the Event instances currently held by the sync.Pool
    events,    \* the heap: the Event instances epool.New made, by identity 1, 2, ...
    cur,       \* per goroutine: the *Event its call chain holds (NIL: nil)
    pc,        \* per goroutine: where it is in its call chain
    sink,      \* per io.Writer: the sequence of Write calls it received
    exit,      \* <<>> while the process runs, then <<the os.Exit status>>
    call,      \* per goroutine: the log call it is making (its arguments)
    ncalls,    \* per goroutine: log calls completed
    hist       \* per goroutine: the accepted calls it completed, in order

vars == <<pool, events, cur, pc, sink, exit, call, ncalls, hist>>

-----------------------------------------------------------------------------
(* Bounds of the model.                                                     *)

NCallers == 2
MaxCalls == 2
MaxFields == 2

Callers == 1..NCallers
EventIds == 1..(NCallers * MaxCalls)
NIL == 0

-----------------------------------------------------------------------------
(* Severity levels. The Level type and its constants are declared outside   *)
(* json.go; they are the ordered enumeration Debug < Info < Warn < Error <  *)
(* Fatal.                                                                   *)

DebugLevel == 0
InfoLevel == 1
WarnLevel == 2
ErrorLevel == 3
FatalLevel == 4

Levels == {DebugLevel, InfoLevel, WarnLevel, ErrorLevel, FatalLevel}

-----------------------------------------------------------------------------
(* Bytes.                                                                   *)

Byte(n) == n % 256

\* s[i:] and s[i:j] of Go, with 0-based i and j
From(s, i) == SubSeq(s, i + 1, Len(s))
Slice(s, i, j) == SubSeq(s, i + 1, j)

\* var hex = "0123456789abcdef"
hex == <<48, 49, 50, 51, 52, 53, 54, 55, 56, 57, 97, 98, 99, 100, 101, 102>> (* 0123456789abcdef *)

\* safeSet with the quote taken for a byte that needs no escape
safeSetWithQuote(b) == b >= 32 /\ b < 128 /\ b # 92

\* safeSet[b]: every ASCII byte except the controls 0..31, '"' and '\'
safeSet(b) == b >= 32 /\ b < 128 /\ b \notin {34, 92}

\* htmlSafeSet with the newline taken for a byte that needs no escape
htmlSafeSetWithNewline(b) == b = 10 \/ (safeSet(b) /\ b \notin {38, 60, 62})

\* htmlSafeSet[b]: safeSet without '&', '<' and '>'
htmlSafeSet(b) == safeSet(b) /\ b \notin {38, 60, 62}

\* utf8.RuneError, and what utf8.DecodeRuneInString returns: <<rune, size>>
RuneError == 65533

Cont(s, k) == k <= Len(s) /\ s[k] >= 128 /\ s[k] <= 191

DecodeRuneInString(s) ==
    IF s = <<>> THEN <<RuneError, 0>>
    ELSE LET b0 == s[1]
             size == IF b0 < 128 THEN 1
                     ELSE IF b0 >= 194 /\ b0 <= 223 THEN 2
                     ELSE IF b0 >= 224 /\ b0 <= 239 THEN 3
                     ELSE IF b0 >= 240 /\ b0 <= 244 THEN 4
                     ELSE 0
             lo == IF b0 = 224 THEN 160 ELSE IF b0 = 240 THEN 144 ELSE 128
             hi == IF b0 = 237 THEN 159 ELSE IF b0 = 244 THEN 143 ELSE 191
         IN  IF size = 1 THEN <<b0, 1>>
             ELSE IF size = 0 \/ Len(s) < size THEN <<RuneError, 1>>
             ELSE IF s[2] < lo \/ s[2] > hi THEN <<RuneError, 1>>
             ELSE IF size = 2 THEN <<(b0 % 32) * 64 + (s[2] % 64), 2>>
             ELSE IF ~Cont(s, 3) THEN <<RuneError, 1>>
             ELSE IF size = 3
                  THEN <<(b0 % 16) * 4096 + (s[2] % 64) * 64 + (s[3] % 64), 3>>
             ELSE IF ~Cont(s, 4) THEN <<RuneError, 1>>
             ELSE <<(b0 % 8) * 262144 + (s[2] % 64) * 4096
                      + (s[3] % 64) * 64 + (s[4] % 64), 4>>

\* The loop of Event.string from index i, with the pending run value[start:i]
\* not yet copied; the result is the buffer after the closing quote.
RECURSIVE stringLoop(_, _, _, _, _)
stringLoop(buf, value, escapeHTML, start, i) ==
    IF i >= Len(value)
    THEN (IF start < Len(value) THEN buf \o From(value, start) ELSE buf) \o <<34>> (* \" *)
    ELSE LET b == value[i + 1]
             flushed == IF start < i THEN buf \o Slice(value, start, i) ELSE buf
         IN  IF b < 128
             THEN IF htmlSafeSet(b) \/ (~escapeHTML /\ safeSet(b))
                  THEN stringLoop(buf, value, escapeHTML, start, i + 1)
                  ELSE LET esc == CASE b \in {92, 34} -> <<92, b>>
                                    [] b = 10 -> <<92, 110>> (* \\n *)
                                    [] b = 13 -> <<92, 114>> (* \\r *)
                                    [] b = 9 -> <<92, 116>> (* \\t *)
                                    [] OTHER -> <<92, 117, 48, 48>> (* \\u00 *) \o
                                          <<hex[(b \div 16) + 1], hex[(b % 16) + 1]>>
                       IN  stringLoop(flushed \o esc, value, escapeHTML, i + 1, i + 1)
             ELSE LET d == DecodeRuneInString(From(value, i))
                      c == d[1]
                      size == d[2]
                  IN  IF c = RuneError /\ size = 1
                      THEN stringLoop(flushed \o <<92, 117, 102, 102, 102, 100>> (* \\ufffd *), value, escapeHTML,
                                      i + size, i + size)
                      ELSE IF c = 8232 \/ c = 8233
                      THEN stringLoop(flushed \o <<92, 117, 50, 48, 50>> (* \\u202 *) \o <<hex[(c % 16) + 1]>>,
                                      value, escapeHTML, i + size, i + size)
                      ELSE stringLoop(buf, value, escapeHTML, start, i + size)

\* func (e *Event) string(value string, escapeHTML bool): the new e.buf
string(buf, value, escapeHTML) ==
    stringLoop(buf \o <<34>> (* \" *), value, escapeHTML, 0, 0)

\* key forgetting the separator byte b that opens the entry
keyNoSeparator(buf, b, k) == buf \o <<34>> \o k \o <<34, 58>> (* \": *)

\* func (e *Event) key(b byte, key string): the new e.buf
key(buf, b, k) == buf \o <<b, 34>> \o k \o <<34, 58>> (* \": *)

\* strconv.AppendInt(buf, i, 10) and strconv.AppendUint(buf, i, 10)
RECURSIVE Digits(_)
Digits(n) == IF n < 10 THEN <<48 + n>> ELSE Digits(n \div 10) \o <<48 + (n % 10)>>

AppendInt(buf, i) == IF i < 0 THEN buf \o <<45>> (* - *) \o Digits(-i) ELSE buf \o Digits(i)

\* strconv.AppendBool(buf, b)
AppendBool(buf, b) == buf \o (IF b THEN <<116, 114, 117, 101>> (* true *) ELSE <<102, 97, 108, 115, 101>> (* false *))

-----------------------------------------------------------------------------
(* Time. A time.Time is the record of its UTC calendar fields.              *)

\* The milliseconds rounded to the nearest instead of cut
MillisRounded(now) == (now.nsec + 500000) \div 1000000

\* now.Nanosecond() / 1000000
Millis(now) == now.nsec \div 1000000

\* The month counted from zero
MonthFromZero(now) == now.month - 1

\* int(now.Month()): January is 1
MonthNumber(now) == now.month

\* func (e *Event) time(now time.Time): the new e.buf. The template is
\* appended at offset n and its digit positions are overwritten.
time(buf, now) ==
    LET n == Len(buf)
        tpl == <<34, 50, 48, 48, 54, 45, 48, 49, 45, 48, 50, 84, 49, 53, 58, 48, 52, 58, 48, 53, 46, 57, 57, 57, 90, 34>> (* \"2006-01-02T15:04:05.999Z\" *)
        y0 == now.year
        y1 == y0 \div 10
        y2 == y1 \div 10
        y3 == y2 \div 10
        mo == MonthNumber(now)
        d == now.day
        h == now.hour
        mi == now.minute
        s == now.second
        ms0 == Millis(now)
        ms1 == ms0 \div 10
        ms2 == ms1 \div 10
        set == (n + 4 + 1 :> Byte(48 + y0 - 10 * y1)) @@
               (n + 3 + 1 :> Byte(48 + y1 - 10 * y2)) @@
               (n + 2 + 1 :> Byte(48 + y2 - 10 * y3)) @@
               (n + 1 + 1 :> Byte(48 + y3)) @@
               (n + 7 + 1 :> Byte(48 + mo - 10 * (mo \div 10))) @@
               (n + 6 + 1 :> Byte(48 + (mo \div 10))) @@
               (n + 10 + 1 :> Byte(48 + d - 10 * (d \div 10))) @@
               (n + 9 + 1 :> Byte(48 + (d \div 10))) @@
               (n + 13 + 1 :> Byte(48 + h - 10 * (h \div 10))) @@
               (n + 12 + 1 :> Byte(48 + (h \div 10))) @@
               (n + 16 + 1 :> Byte(48 + mi - 10 * (mi \div 10))) @@
               (n + 15 + 1 :> Byte(48 + (mi \div 10))) @@
               (n + 19 + 1 :> Byte(48 + s - 10 * (s \div 10))) @@
               (n + 18 + 1 :> Byte(48 + (s \div 10))) @@
               (n + 23 + 1 :> Byte(48 + ms0 - 10 * ms1)) @@
               (n + 22 + 1 :> Byte(48 + ms1 - 10 * ms2)) @@
               (n + 21 + 1 :> Byte(48 + ms2))
        b == buf \o tpl
    IN  [k \in 1..Len(b) |-> IF k \in DOMAIN set THEN set[k] ELSE b[k]]

\* The custom layouts of the model: "15:04" (hour and minute, two digits each)
Layout1504 == <<49, 53, 58, 48, 52>> (* 15:04 *)

TwoDigits(n) == <<48 + (n \div 10), 48 + (n % 10)>>

\* The decimal digits of v, zero-padded to width w
RECURSIVE Pad(_, _)
Pad(v, w) == IF w = 0 THEN <<>> ELSE Pad(v \div 10, w - 1) \o <<48 + (v % 10)>>

RECURSIVE Pow10(_)
Pow10(n) == IF n = 0 THEN 1 ELSE 10 * Pow10(n - 1)

RECURSIVE TrimZeros(_)
TrimZeros(ds) ==
    IF ds # <<>> /\ ds[Len(ds)] = 48 THEN TrimZeros(SubSeq(ds, 1, Len(ds) - 1)) ELSE ds

\* The length of the run of byte ch in s from position i
RECURSIVE RunLen(_, _, _)
RunLen(s, i, ch) == IF i <= Len(s) /\ s[i] = ch THEN 1 + RunLen(s, i + 1, ch) ELSE 0

\* formatNano of package time: the first n digits of the nanoseconds after
\* a point; with trim, trailing zeros are dropped, and the point with them
\* when no digit is left
formatNano(nsec, n, trim) ==
    LET ds == Pad(nsec \div Pow10(9 - n), n)
        t == IF trim THEN TrimZeros(ds) ELSE ds
    IN  IF t = <<>> THEN <<>> ELSE <<46>> \o t

HasPrefix(s, t) == Len(s) >= Len(t) /\ SubSeq(s, 1, Len(t)) = t

\* now.AppendFormat(buf, layout) of package time, for layouts made of the
\* elements 2006, 01, 02, 15, 04, 05, fractional seconds (.000 or .999, of
\* any number of digits, before a non-digit) and bytes that belong to no
\* element, which are copied.
RECURSIVE AppendFormat(_, _, _)
AppendFormat(buf, now, layout) ==
    LET rest(n) == SubSeq(layout, n + 1, Len(layout))
        frac == IF Len(layout) >= 2 /\ layout[1] = 46 /\ layout[2] \in {48, 57}
                THEN RunLen(layout, 2, layout[2]) ELSE 0
    IN  IF layout = <<>> THEN buf
        ELSE IF HasPrefix(layout, <<50, 48, 48, 54>> (* 2006 *))
             THEN AppendFormat(buf \o Pad(now.year, 4), now, rest(4))
        ELSE IF HasPrefix(layout, <<48, 49>> (* 01 *))
             THEN AppendFormat(buf \o TwoDigits(now.month), now, rest(2))
        ELSE IF HasPrefix(layout, <<48, 50>> (* 02 *))
             THEN AppendFormat(buf \o TwoDigits(now.day), now, rest(2))
        ELSE IF HasPrefix(layout, <<49, 53>> (* 15 *))
             THEN AppendFormat(buf \o TwoDigits(now.hour), now, rest(2))
        ELSE IF HasPrefix(layout, <<48, 52>> (* 04 *))
             THEN AppendFormat(buf \o TwoDigits(now.minute), now, rest(2))
        ELSE IF HasPrefix(layout, <<48, 53>> (* 05 *))
             THEN AppendFormat(buf \o TwoDigits(now.second), now, rest(2))
        ELSE IF frac > 0 /\ ~(frac + 2 <= Len(layout)
                                 /\ layout[frac + 2] >= 48 /\ layout[frac + 2] <= 57)
             THEN AppendFormat(buf \o formatNano(now.nsec, frac, layout[2] = 57),
                               now, rest(frac + 1))
        ELSE AppendFormat(buf \o <<layout[1]>>, now, rest(1))

\* The days from 1970-01-01 to the day y-m-d of the Gregorian calendar
DaysFromCivil(y, m, d) ==
    LET yy == IF m <= 2 THEN y - 1 ELSE y
        era == yy \div 400
        yoe == yy - era * 400
        doy == ((153 * (IF m > 2 THEN m - 3 ELSE m + 9) + 2) \div 5) + d - 1
        doe == yoe * 365 + (yoe \div 4) - (yoe \div 100) + doy
    IN  era * 146097 + doe - 719468

\* now.Unix(): whole seconds since 1970-01-01T00:00:00Z
Unix(now) ==
    DaysFromCivil(now.year, now.month, now.day) * 86400
        + now.hour * 3600 + now.minute * 60 + now.second

-----------------------------------------------------------------------------
(* Call sites. runtime.Caller returns (file, line, ok).                     *)

RECURSIVE LastIndex(_, _)
LastIndex(s, b) ==
    IF s = <<>> THEN -1
    ELSE IF s[Len(s)] = b THEN Len(s) - 1
    ELSE LastIndex(SubSeq(s, 1, Len(s) - 1), b)

\* func (e *Event) caller(skip int): the new e.buf, for the frame ci that
\* runtime.Caller(2 + skip) reports
caller(buf, ci) ==
    LET i == LastIndex(ci.file, 47)
        file == IF ~ci.ok THEN <<63, 63, 63>> (* ??? *)
                ELSE IF i >= 0 THEN From(ci.file, i + 1) ELSE ci.file
        line0 == IF ~ci.ok THEN 1 ELSE ci.line
        line == IF line0 < 0 THEN 0 ELSE line0
    IN  AppendInt(buf \o <<44, 34, 99, 97, 108, 108, 101, 114, 34, 58, 34>> (* ,\"caller\":\" *) \o file \o <<58>> (* : *), line) \o <<34>> (* \" *)

-----------------------------------------------------------------------------
(* Loggers and events.                                                      *)

\* The io.Writer values of the model
Writers == {"w0", "w1", "wf"}

\* Write of writer w returns an error (or a short count): "wf" always does
WriteFails(w) == w = "wf"

\* var DefaultLogger
DefaultLogger ==
    [Level |-> DebugLevel, Caller |-> FALSE, EscapeHTML |-> FALSE,
     TimeField |-> <<>>, TimeFormat |-> <<>>, Writer |-> "w0"]

\* new(Event): the zero Event that epool.New returns
NewEvent ==
    [buf |-> <<>>, fatal |-> FALSE, escapeHTML |-> FALSE,
     timeFormat |-> <<>>, write |-> "nil"]

\* The gate with its comparison off by one: level <= l.Level
GatedAtMinimum(l, level) == level <= l.Level

\* The gate of WithLevel: the event is not created
Gated(l, level) == level < l.Level

\* The reset forgotten: the pooled instance keeps its last record
ResetForgotten(buf) == buf

\* e.buf = e.buf[:0]
Reset(buf) == <<>>

\* The switch with one tag misspelt
LevelFieldMisspelt(level) ==
    CASE level = DebugLevel -> <<44, 34, 108, 101, 118, 101, 108, 34, 58, 34, 100, 101, 98, 117, 103, 34>> (* ,\"level\":\"debug\" *)
      [] level = InfoLevel -> <<44, 34, 108, 101, 118, 101, 108, 34, 58, 34, 105, 110, 102, 111, 34>> (* ,\"level\":\"info\" *)
      [] level = WarnLevel -> <<44, 34, 108, 101, 118, 101, 108, 34, 58, 34, 119, 97, 114, 110, 105, 110, 103, 34>> (* ,\"level\":\"warning\" *)
      [] level = ErrorLevel -> <<44, 34, 108, 101, 118, 101, 108, 34, 58, 34, 101, 114, 114, 111, 114, 34>> (* ,\"level\":\"error\" *)
      [] level = FatalLevel -> <<44, 34, 108, 101, 118, 101, 108, 34, 58, 34, 102, 97, 116, 97, 108, 34>> (* ,\"level\":\"fatal\" *)
      [] OTHER -> <<>>

\* The level tag WithLevel appends; a level outside the switch appends nothing
LevelField(level) ==
    CASE level = DebugLevel -> <<44, 34, 108, 101, 118, 101, 108, 34, 58, 34, 100, 101, 98, 117, 103, 34>> (* ,\"level\":\"debug\" *)
      [] level = InfoLevel -> <<44, 34, 108, 101, 118, 101, 108, 34, 58, 34, 105, 110, 102, 111, 34>> (* ,\"level\":\"info\" *)
      [] level = WarnLevel -> <<44, 34, 108, 101, 118, 101, 108, 34, 58, 34, 119, 97, 114, 110, 34>> (* ,\"level\":\"warn\" *)
      [] level = ErrorLevel -> <<44, 34, 108, 101, 118, 101, 108, 34, 58, 34, 101, 114, 114, 111, 114, 34>> (* ,\"level\":\"error\" *)
      [] level = FatalLevel -> <<44, 34, 108, 101, 118, 101, 108, 34, 58, 34, 102, 97, 116, 97, 108, 34>> (* ,\"level\":\"fatal\" *)
      [] OTHER -> <<>>

\* The Event that WithLevel returns when the gate passes, built on the pooled
\* instance e: its fields reinitialized and its buffer holding the header.
Header(e, l, level, now, ci) ==
    LET b0 == Reset(e.buf)
        b1 == IF l.TimeField = <<>> THEN b0 \o <<123, 34, 116, 105, 109, 101, 34, 58>> (* {\"time\": *)
              ELSE key(b0, 123, l.TimeField)
        b2 == IF l.TimeFormat = <<>> THEN time(b1, now)
              ELSE AppendFormat(b1 \o <<34>> (* \" *), now, l.TimeFormat) \o <<34>> (* \" *)
        b3 == b2 \o LevelField(level)
        b4 == IF l.Caller THEN caller(b3, ci) ELSE b3
    IN  [buf |-> b4, fatal |-> (level = FatalLevel), escapeHTML |-> l.EscapeHTML,
         timeFormat |-> l.TimeFormat, write |-> l.Writer]

-----------------------------------------------------------------------------
(* The field appenders on an active Event e: each returns e with its new    *)
(* buffer. A field call is a record [op, key, ...] of the method's name and *)
(* arguments.                                                               *)

Comma == 44

WithBuf(e, buf) == [e EXCEPT !.buf = buf]

\* The elements of an array field, comma-joined: one(buf, x) appends x
RECURSIVE Joined(_, _, _, _)
Joined(buf, xs, one(_, _), i) ==
    IF i > Len(xs) THEN buf
    ELSE Joined(one(IF i # 1 THEN buf \o <<44>> (* , *) ELSE buf, xs[i]), xs, one, i + 1)

\* func (e *Event) Time(key string, t time.Time) *Event
EventTime(e, k, t) ==
    WithBuf(e, IF e.timeFormat # <<>>
               THEN AppendFormat(key(e.buf, Comma, k) \o <<34>> (* \" *), t, e.timeFormat)
                        \o <<34>> (* \" *)
               ELSE time(key(e.buf, Comma, k), t))

\* func (e *Event) Timestamp() *Event
EventTimestamp(e, now) ==
    WithBuf(e, AppendInt(key(e.buf, Comma, <<116, 105, 109, 101, 115, 116, 97, 109, 112>> (* timestamp *)), Unix(now)))

\* func (e *Event) Bool(key string, b bool) *Event
EventBool(e, k, b) == WithBuf(e, AppendBool(key(e.buf, Comma, k), b))

\* func (e *Event) Bools(key string, b []bool) *Event
EventBools(e, k, bs) ==
    WithBuf(e, Joined(key(e.buf, Comma, k) \o <<91>> (* [ *), bs, AppendBool, 1) \o <<93>> (* ] *))

\* d.String() of time.Duration, for the durations of the model (nanoseconds)
DurationString(d) ==
    CASE d = 0 -> <<48, 115>> (* 0s *)
      [] d = 1500000000 -> <<49, 46, 53, 115>> (* 1.5s *)

\* func (e *Event) Dur(key string, d time.Duration) *Event
EventDur(e, k, d) ==
    WithBuf(e, key(e.buf, Comma, k) \o <<34>> (* \" *) \o DurationString(d) \o <<34>> (* \" *))

\* func (e *Event) Err(err error) *Event; err is <<>> (nil) or <<message>>
EventErr(e, err) ==
    WithBuf(e, IF err = <<>> THEN e.buf \o <<44, 34, 101, 114, 114, 111, 114, 34, 58, 110, 117, 108, 108>> (* ,\"error\":null *)
               ELSE string(e.buf \o <<44, 34, 101, 114, 114, 111, 114, 34, 58>> (* ,\"error\": *), err[1], e.escapeHTML))

\* func (e *Event) Errs(key string, errs []error) *Event
EventErrs(e, k, errs) ==
    LET one(buf, err) == IF err = <<>> THEN buf \o <<110, 117, 108, 108>> (* null *)
                         ELSE string(buf, err[1], e.escapeHTML)
    IN  WithBuf(e, Joined(key(e.buf, Comma, k) \o <<91>> (* [ *), errs, one, 1) \o <<93>> (* ] *))

\* strconv.AppendFloat(buf, f, 'f', -1, 64), for the floats of the model
AppendFloat(buf, f) ==
    buf \o CASE f = "1.5" -> <<49, 46, 53>> (* 1.5 *)
             [] f = "NaN" -> <<78, 97, 78>> (* NaN *)

\* func (e *Event) Float64(key string, f float64) *Event
EventFloat64(e, k, f) == WithBuf(e, AppendFloat(key(e.buf, Comma, k), f))

\* func (e *Event) Int64(key string, i int64) *Event
EventInt64(e, k, i) == WithBuf(e, AppendInt(key(e.buf, Comma, k), i))

\* func (e *Event) Uint64(key string, i uint64) *Event
EventUint64(e, k, i) == WithBuf(e, AppendInt(key(e.buf, Comma, k), i))

\* func (e *Event) RawJSON(key string, b []byte) *Event
EventRawJSON(e, k, b) == WithBuf(e, key(e.buf, Comma, k) \o b)

\* func (e *Event) Str(key string, val string) *Event
EventStr(e, k, val) == WithBuf(e, string(key(e.buf, Comma, k), val, e.escapeHTML))

\* func (e *Event) Strs(key string, vals []string) *Event
EventStrs(e, k, vals) ==
    LET one(buf, val) == string(buf, val, e.escapeHTML)
    IN  WithBuf(e, Joined(key(e.buf, Comma, k) \o <<91>> (* [ *), vals, one, 1) \o <<93>> (* ] *))

\* func (e *Event) Bytes(key string, val []byte) *Event
EventBytes(e, k, val) == WithBuf(e, string(key(e.buf, Comma, k), val, e.escapeHTML))

\* json.Marshal(i), for the values of the model: <<text, err>>, err being
\* <<>> (nil) or <<message>>
Marshal(i) ==
    CASE i = "map" -> <<<<123, 34, 97, 34, 58, 49, 125>> (* {\"a\":1} *), <<>>>>
      [] i = "int" -> <<<<51>> (* 3 *), <<>>>>
      [] i = "a<b" -> <<<<34, 97, 92, 117, 48, 48, 51, 99, 98, 34>> (* \"a\\u003cb\" *), <<>>>>
      [] i = "chan" -> <<<<>>, <<<<106, 115, 111, 110, 58, 32, 117, 110, 115, 117, 112, 112, 111, 114, 116, 101, 100, 32, 116, 121, 112, 101, 58, 32, 99, 104, 97, 110, 32, 105, 110, 116>> (* json: unsupported type: chan int *)>>>>
      [] i = "chan<-" -> <<<<>>, <<<<106, 115, 111, 110, 58, 32, 117, 110, 115, 117, 112, 112, 111, 114, 116, 101, 100, 32, 116, 121, 112, 101, 58, 32, 99, 104, 97, 110, 60, 45, 32, 105, 110, 116>> (* json: unsupported type: chan<- int *)>>>>

\* Interface giving up on a marshaling error, the key left without a value
EventInterfaceAborting(e, k, i) ==
    LET m == Marshal(i)
        b == key(e.buf, Comma, k)
    IN  WithBuf(e, IF m[2] # <<>> THEN b ELSE string(b, m[1], e.escapeHTML))

\* Interface appending the marshaled text as it is, as RawJSON does
EventInterfaceNested(e, k, i) ==
    LET m == Marshal(i)
        b == key(e.buf, Comma, k)
    IN  WithBuf(e, IF m[2] # <<>>
                   THEN string(b, <<109, 97, 114, 115, 104, 97, 108, 105, 110, 103, 32, 101, 114, 114, 111, 114, 58, 32>> (* marshaling error:  *) \o m[2][1], e.escapeHTML)
                   ELSE b \o m[1])

\* func (e *Event) Interface(key string, i interface{}) *Event
EventInterface(e, k, i) ==
    LET m == Marshal(i)
        b == key(e.buf, Comma, k)
    IN  WithBuf(e, IF m[2] # <<>>
                   THEN string(b, <<109, 97, 114, 115, 104, 97, 108, 105, 110, 103, 32, 101, 114, 114, 111, 114, 58, 32>> (* marshaling error:  *) \o m[2][1], e.escapeHTML)
                   ELSE string(b, m[1], e.escapeHTML))

\* func (e *Event) Caller() *Event
EventCaller(e, ci) == WithBuf(e, caller(e.buf, ci))

\* The method f.op applied to the active Event e
Apply(e, f) ==
    CASE f.op = "Time" -> EventTime(e, f.key, f.val)
      [] f.op = "Timestamp" -> EventTimestamp(e, f.val)
      [] f.op = "Bool" -> EventBool(e, f.key, f.val)
      [] f.op = "Bools" -> EventBools(e, f.key, f.val)
      [] f.op = "Dur" -> EventDur(e, f.key, f.val)
      [] f.op = "Err" -> EventErr(e, f.val)
      [] f.op = "Errs" -> EventErrs(e, f.key, f.val)
      [] f.op = "Float64" -> EventFloat64(e, f.key, f.val)
      [] f.op = "Int64" -> EventInt64(e, f.key, f.val)
      [] f.op = "Uint64" -> EventUint64(e, f.key, f.val)
      [] f.op = "RawJSON" -> EventRawJSON(e, f.key, f.val)
      [] f.op = "Str" -> EventStr(e, f.key, f.val)
      [] f.op = "Strs" -> EventStrs(e, f.key, f.val)
      [] f.op = "Bytes" -> EventBytes(e, f.key, f.val)
      [] f.op = "Interface" -> EventInterface(e, f.key, f.val)
      [] f.op = "Caller" -> EventCaller(e, f.val)

\* fmt.Sprintf(format, v...), for the %d verb and integer arguments
RECURSIVE Sprintf(_, _)
Sprintf(format, v) ==
    IF format = <<>> THEN <<>>
    ELSE IF Len(format) >= 2 /\ format[1] = 37 /\ format[2] = 100 /\ v # <<>>
    THEN AppendInt(<<>>, Head(v)) \o Sprintf(SubSeq(format, 3, Len(format)), Tail(v))
    ELSE <<format[1]>> \o Sprintf(Tail(format), v)

\* The closing without its newline
ClosedNoNewline(buf) == buf \o <<125>> (* } *)

\* The closing of the object by Send, and by Msg after its message field
Closed(buf) == buf \o <<125, 10>> (* }\n *)

MsgClosed(e, msg) == Closed(string(e.buf \o <<44, 34, 109, 101, 115, 115, 97, 103, 101, 34, 58>> (* ,\"message\": *), msg, e.escapeHTML))

\* func stacks(all bool) []byte, when the stacks to dump take `need` bytes
\* (runtime.Stack fills at most the buffer)
StackFirst == 10000
StackFirstAll == 100000
StackTries == 5

Min(a, b) == IF a < b THEN a ELSE b

\* The loop of stacks from try i with a buffer of n bytes: the length of the
\* slice it returns, the tries it made and the size of its last buffer
RECURSIVE stacksLoop(_, _, _, _)
stacksLoop(n, i, need, trace) ==
    IF i >= StackTries THEN [len |-> trace, tries |-> i, cap |-> trace]
    ELSE LET nbytes == Min(need, n)
         IN  IF nbytes < n THEN [len |-> nbytes, tries |-> i + 1, cap |-> n]
             ELSE stacksLoop(n * 2, i + 1, need, n)

\* stacks starting from 10000 bytes whatever `all` is
stacksSameStart(all, need) == stacksLoop(StackFirst, 0, need, 0)

stacks(all, need) == stacksLoop(IF all THEN StackFirstAll ELSE StackFirst, 0, need, 0)

-----------------------------------------------------------------------------
(* The state machine. A goroutine makes one log call after another: an      *)
(* entry point (the gate), field appends on what it returned, one terminal  *)
(* call. The sync.Pool operations and each Write are atomic steps; a        *)
(* terminal call is the step up to its Write followed by the steps after    *)
(* it (Put, or the stack dumps and os.Exit).                                *)

\* The times timeNow() returns in the model
T0 ==
    [year |-> 2024, month |-> 2, day |-> 29, hour |-> 23, minute |-> 59,
     second |-> 58, nsec |-> 7123456]
T1 ==
    [year |-> 1999, month |-> 12, day |-> 31, hour |-> 0, minute |-> 0,
     second |-> 0, nsec |-> 0]

\* The frames runtime.Caller reports in the model
CI0 == [ok |-> TRUE, file |-> <<47, 115, 114, 99, 47, 97, 112, 112, 47, 109, 97, 105, 110, 46, 103, 111>> (* /src/app/main.go *), line |-> 42]
CI1 == [ok |-> TRUE, file |-> <<109, 97, 105, 110, 46, 103, 111>> (* main.go *), line |-> -1]
NoCI == [ok |-> FALSE, file |-> <<>>, line |-> 0]

NoTerm == [op |-> "none", msg |-> <<>>, format |-> <<>>, v |-> <<>>]

NoCall ==
    [entry |-> "none", logger |-> DefaultLogger, level |-> DebugLevel,
     now |-> T0, ci |-> NoCI, fields |-> <<>>, term |-> NoTerm]

Init ==
    /\ pool = {}
    /\ events = <<>>
    /\ cur = [c \in Callers |-> NIL]
    /\ pc = [c \in Callers |-> "idle"]
    /\ sink = [w \in Writers |-> <<>>]
    /\ exit = <<>>
    /\ call = [c \in Callers |-> NoCall]
    /\ ncalls = [c \in Callers |-> 0]
    /\ hist = [c \in Callers |-> <<>>]

\* What a Write call hands to the sink: a record's bytes, or a stack dump
\* (of which only the length is kept); full is the length of what there was
\* to write
RecordWrite(buf) == [kind |-> "record", data |-> buf, len |-> Len(buf), full |-> Len(buf)]
StackWrite(all, need) ==
    [kind |-> IF all THEN "stacks" ELSE "stack", data |-> <<>>,
     len |-> stacks(all, need).len, full |-> need]

\* Write calls repeated when the writer reports a failure
RecordWritesRetried(w, buf) ==
    IF WriteFails(w) THEN <<RecordWrite(buf), RecordWrite(buf)>> ELSE <<RecordWrite(buf)>>

\* The Write calls a terminal call makes to writer w for its record buf: one,
\* whose result is dropped
RecordWrites(w, buf) == <<RecordWrite(buf)>>

\* A Get that leaves the instance it returns in the pool
TakenButKept(e) == pool

\* epool.Get() returning the pooled instance e, and epool.Put(e)
Taken(e) == pool \ {e}
Released(e) == pool \cup {e}

\* func (l Logger) WithLevel(level Level) (e *Event), entered through `entry`
Enter(c, entry, l, level, now, ci) ==
    /\ exit = <<>>
    /\ pc[c] = "idle"
    /\ ncalls[c] < MaxCalls
    /\ IF Gated(l, level)
       THEN /\ cur' = [cur EXCEPT ![c] = NIL]
            /\ UNCHANGED <<pool, events>>
       ELSE \/ \E e \in pool :
                 /\ pool' = Taken(e)
                 /\ events' = [events EXCEPT ![e] = Header(events[e], l, level, now, ci)]
                 /\ cur' = [cur EXCEPT ![c] = e]
            \/ /\ Len(events) + 1 \in EventIds
               /\ events' = Append(events, Header(NewEvent, l, level, now, ci))
               /\ cur' = [cur EXCEPT ![c] = Len(events) + 1]
               /\ UNCHANGED pool
    /\ pc' = [pc EXCEPT ![c] = "chain"]
    /\ call' = [call EXCEPT ![c] =
                   [entry |-> entry, logger |-> l, level |-> level, now |-> now,
                    ci |-> IF l.Caller THEN ci ELSE NoCI,
                    fields |-> <<>>, term |-> NoTerm]]
    /\ UNCHANGED <<sink, exit, ncalls, hist>>

WithLevel(c, l, level, now, ci) == Enter(c, "WithLevel", l, level, now, ci)

\* func (l Logger) Debug() *Event, and Info, Warn, Error, Fatal
LoggerDebug(c, l, now, ci) == Enter(c, "l.Debug", l, DebugLevel, now, ci)
LoggerInfo(c, l, now, ci) == Enter(c, "l.Info", l, InfoLevel, now, ci)
LoggerWarn(c, l, now, ci) == Enter(c, "l.Warn", l, WarnLevel, now, ci)
LoggerError(c, l, now, ci) == Enter(c, "l.Error", l, ErrorLevel, now, ci)
LoggerFatal(c, l, now, ci) == Enter(c, "l.Fatal", l, FatalLevel, now, ci)

\* func Debug() *Event, and Info, Warn, Error, Fatal
Debug(c, now, ci) == Enter(c, "Debug", DefaultLogger, DebugLevel, now, ci)
Info(c, now, ci) == Enter(c, "Info", DefaultLogger, InfoLevel, now, ci)
Warn(c, now, ci) == Enter(c, "Warn", DefaultLogger, WarnLevel, now, ci)
Error(c, now, ci) == Enter(c, "Error", DefaultLogger, ErrorLevel, now, ci)
Fatal(c, now, ci) == Enter(c, "Fatal", DefaultLogger, FatalLevel, now, ci)

\* A field-append call without its nil guard: on nil the method dereferences
\* nil, and the panic ends the process (exit status 2)
FieldUnguarded(c, f) ==
    /\ exit = <<>>
    /\ pc[c] = "chain"
    /\ Len(call[c].fields) < MaxFields
    /\ IF cur[c] = NIL
       THEN exit' = <<2>> /\ UNCHANGED events
       ELSE events' = [events EXCEPT ![cur[c]] = Apply(@, f)] /\ UNCHANGED exit
    /\ call' = [call EXCEPT ![c].fields = Append(@, f)]
    /\ UNCHANGED <<pool, cur, pc, sink, ncalls, hist>>

\* A field-append call that hands the event back to the pool as well
FieldReleasing(c, f) ==
    /\ exit = <<>>
    /\ pc[c] = "chain"
    /\ Len(call[c].fields) < MaxFields
    /\ IF cur[c] = NIL
       THEN UNCHANGED <<events, pool>>
       ELSE /\ events' = [events EXCEPT ![cur[c]] = Apply(@, f)]
            /\ pool' = Released(cur[c])
    /\ call' = [call EXCEPT ![c].fields = Append(@, f)]
    /\ UNCHANGED <<cur, pc, sink, exit, ncalls, hist>>

\* A field-append call f on what the entry point returned: nil stays nil
Field(c, f) ==
    /\ exit = <<>>
    /\ pc[c] = "chain"
    /\ Len(call[c].fields) < MaxFields
    /\ IF cur[c] = NIL
       THEN UNCHANGED events
       ELSE events' = [events EXCEPT ![cur[c]] = Apply(@, f)]
    /\ call' = [call EXCEPT ![c].fields = Append(@, f)]
    /\ UNCHANGED <<pool, cur, pc, sink, exit, ncalls, hist>>

Time(c, k, t) == Field(c, [op |-> "Time", key |-> k, val |-> t])
Timestamp(c, now) == Field(c, [op |-> "Timestamp", key |-> <<>>, val |-> now])
Bool(c, k, b) == Field(c, [op |-> "Bool", key |-> k, val |-> b])
Bools(c, k, bs) == Field(c, [op |-> "Bools", key |-> k, val |-> bs])
Dur(c, k, d) == Field(c, [op |-> "Dur", key |-> k, val |-> d])
Err(c, err) == Field(c, [op |-> "Err", key |-> <<>>, val |-> err])
Errs(c, k, errs) == Field(c, [op |-> "Errs", key |-> k, val |-> errs])
Float64(c, k, f) == Field(c, [op |-> "Float64", key |-> k, val |-> f])
Int64(c, k, i) == Field(c, [op |-> "Int64", key |-> k, val |-> i])
Uint64(c, k, i) == Field(c, [op |-> "Uint64", key |-> k, val |-> i])
\* func (e *Event) Int(key string, i int) *Event
Int_(c, k, i) == Int64(c, k, i)
RawJSON(c, k, b) == Field(c, [op |-> "RawJSON", key |-> k, val |-> b])
Str(c, k, val) == Field(c, [op |-> "Str", key |-> k, val |-> val])
Strs(c, k, vals) == Field(c, [op |-> "Strs", key |-> k, val |-> vals])
Bytes(c, k, val) == Field(c, [op |-> "Bytes", key |-> k, val |-> val])
Interface(c, k, i) == Field(c, [op |-> "Interface", key |-> k, val |-> i])
Caller(c, ci) == Field(c, [op |-> "Caller", key |-> <<>>, val |-> ci])

\* A terminal call up to and including e.write(e.buf), where closed(e) is the
\* final buffer; on the nil event it returns at once.
Terminal(c, t, closed(_)) ==
    /\ exit = <<>>
    /\ pc[c] = "chain"
    /\ call' = [call EXCEPT ![c].term = t]
    /\ IF cur[c] = NIL
       THEN /\ pc' = [pc EXCEPT ![c] = "idle"]
            /\ ncalls' = [ncalls EXCEPT ![c] = @ + 1]
            /\ UNCHANGED <<events, sink, hist>>
       ELSE LET e == events[cur[c]]
                buf == closed(e)
            IN  /\ events' = [events EXCEPT ![cur[c]].buf = buf]
                /\ sink' = [sink EXCEPT ![e.write] = @ \o RecordWrites(e.write, buf)]
                /\ pc' = [pc EXCEPT ![c] = IF e.fatal THEN "dump" ELSE "put"]
                /\ hist' = [hist EXCEPT ![c] = Append(@, call'[c])]
                /\ UNCHANGED ncalls
    /\ UNCHANGED <<pool, cur, exit>>

\* func (e *Event) Send()
Send(c) ==
    LET closed(e) == Closed(e.buf)
    IN  Terminal(c, [NoTerm EXCEPT !.op = "Send"], closed)

\* func (e *Event) Msg(msg string)
MsgAs(c, t, msg) ==
    LET closed(e) == MsgClosed(e, msg)
    IN  Terminal(c, t, closed)

Msg(c, msg) == MsgAs(c, [NoTerm EXCEPT !.op = "Msg", !.msg = msg], msg)

\* func (e *Event) Msgf(format string, v ...interface{})
Msgf(c, format, v) ==
    MsgAs(c, [op |-> "Msgf", msg |-> Sprintf(format, v), format |-> format, v |-> v],
          Sprintf(format, v))

\* if e.fatal: e.write(stacks(false)), when this goroutine's stack takes
\* `need` bytes
DumpStack(c, need) ==
    /\ exit = <<>>
    /\ pc[c] = "dump"
    /\ sink' = [sink EXCEPT ![events[cur[c]].write] =
                   Append(@, StackWrite(FALSE, need))]
    /\ pc' = [pc EXCEPT ![c] = "dumpall"]
    /\ UNCHANGED <<pool, events, cur, exit, call, ncalls, hist>>

\* The fatal path without its second dump
DumpAllStacksOmitted(c, need) ==
    /\ exit = <<>>
    /\ pc[c] = "dumpall"
    /\ pc' = [pc EXCEPT ![c] = "exit"]
    /\ UNCHANGED <<pool, events, cur, sink, exit, call, ncalls, hist>>

\* e.write(stacks(true)), when all stacks take `need` bytes
DumpAllStacks(c, need) ==
    /\ exit = <<>>
    /\ pc[c] = "dumpall"
    /\ sink' = [sink EXCEPT ![events[cur[c]].write] =
                   Append(@, StackWrite(TRUE, need))]
    /\ pc' = [pc EXCEPT ![c] = "exit"]
    /\ UNCHANGED <<pool, events, cur, exit, call, ncalls, hist>>

ExitStatus == 255

\* os.Exit(255): the process, with all its goroutines, is gone
Exit(c) ==
    /\ exit = <<>>
    /\ pc[c] = "exit"
    /\ exit' = <<ExitStatus>>
    /\ UNCHANGED <<pool, events, cur, pc, sink, call, ncalls, hist>>

\* epool.Put(e), the last statement of Send and Msg
Put(c) ==
    /\ exit = <<>>
    /\ pc[c] = "put"
    /\ pool' = Released(cur[c])
    /\ cur' = [cur EXCEPT ![c] = NIL]
    /\ pc' = [pc EXCEPT ![c] = "idle"]
    /\ ncalls' = [ncalls EXCEPT ![c] = @ + 1]
    /\ UNCHANGED <<events, sink, exit, call, hist>>

-----------------------------------------------------------------------------
(* Specification Spec: NCallers goroutines, each making MaxCalls log calls  *)
(* through two differently configured Loggers, the pool shared by all.      *)

\* A Logger with every option set, writing to the second writer
LogB ==
    [Level |-> WarnLevel, Caller |-> TRUE, EscapeHTML |-> TRUE,
     TimeField |-> <<116, 115>> (* ts *), TimeFormat |-> Layout1504, Writer |-> "w1"]

\* The stack sizes runtime.Stack meets in the model
StackNeeds == {3000, 4000000}

\* The value goroutine c logs: "g<c>" with its own number
Tag(c) == <<103, 60, 48 + c, 62>>

Next ==
    \E c \in Callers :
        \/ \E l \in {DefaultLogger, LogB}, level \in {ErrorLevel, FatalLevel} :
               WithLevel(c, l, level, T0, CI0)
        \/ call[c].fields = <<>> /\ Str(c, <<103>> (* g *), Tag(c))
        \/ call[c].fields # <<>> /\ Msg(c, <<100, 111, 110, 101>> (* done *))
        \/ DumpStack(c, 3000)
        \/ DumpAllStacks(c, 3000)
        \/ Exit(c)
        \/ Put(c)

Spec == Init /\ [][Next]_vars

-----------------------------------------------------------------------------
(* Specification SpecGate: one log call, through every entry point, for     *)
(* every minimum level and every requested level, also outside the          *)
(* enumeration.                                                             *)

LogT == [DefaultLogger EXCEPT !.TimeField = <<116, 115>> (* ts *)]
LogF == [DefaultLogger EXCEPT !.TimeFormat = Layout1504]

GateLoggers == {[DefaultLogger EXCEPT !.Level = m] : m \in Levels} \cup {LogB, LogT, LogF}
GateLevels == (DebugLevel - 1)..(FatalLevel + 1)
Times == {T0, T1}
CallerInfos == {CI0, CI1, NoCI}

NextGate ==
    \/ /\ ncalls[1] = 0
       /\ \E now \in Times, ci \in CallerInfos :
           \/ \E l \in GateLoggers :
                 \/ \E level \in GateLevels : WithLevel(1, l, level, now, ci)
                 \/ LoggerDebug(1, l, now, ci)
                 \/ LoggerInfo(1, l, now, ci)
                 \/ LoggerWarn(1, l, now, ci)
                 \/ LoggerError(1, l, now, ci)
                 \/ LoggerFatal(1, l, now, ci)
           \/ Debug(1, now, ci)
           \/ Info(1, now, ci)
           \/ Warn(1, now, ci)
           \/ Error(1, now, ci)
           \/ Fatal(1, now, ci)
    \/ Str(1, <<120>> (* x *), <<121>> (* y *))
    \/ Int_(1, <<114, 101, 116, 114, 105, 101, 115>> (* retries *), 3)
    \/ Send(1)
    \/ Msg(1, <<105, 103, 110, 111, 114, 101, 100>> (* ignored *))
    \/ Msgf(1, <<110, 61, 37, 100>> (* n=%d *), <<3>>)
    \/ \E need \in StackNeeds : DumpStack(1, need)
    \/ \E need \in StackNeeds : DumpAllStacks(1, need)
    \/ Exit(1)
    \/ Put(1)

SpecGate == Init /\ [][NextGate]_vars

-----------------------------------------------------------------------------
(* Specification SpecFields: one log call, with every kind of field-append  *)
(* call, on a plain and on a fully configured Logger.                       *)

NextFields ==
    \/ /\ ncalls[1] = 0
       /\ \E l \in {DefaultLogger, LogB}, ci \in {CI0, NoCI} :
              WithLevel(1, l, ErrorLevel, T0, ci)
    \/ Time(1, <<97, 116>> (* at *), T1)
    \/ Timestamp(1, T0)
    \/ Bool(1, <<111, 107>> (* ok *), TRUE)
    \/ Bools(1, <<98, 115>> (* bs *), <<TRUE, FALSE>>)
    \/ Dur(1, <<100>> (* d *), 1500000000)
    \/ \E err \in {<<>>, <<<<98, 111, 111, 109>> (* boom *)>>} : Err(1, err)
    \/ Errs(1, <<101, 115>> (* es *), <<<<>>, <<<<101, 60, 49, 62>> (* e<1> *)>>>>)
    \/ \E f \in {"1.5", "NaN"} : Float64(1, <<102>> (* f *), f)
    \/ Int64(1, <<110>> (* n *), -7)
    \/ Uint64(1, <<117>> (* u *), 18)
    \/ Int_(1, <<114, 101, 116, 114, 105, 101, 115>> (* retries *), 3)
    \/ \E b \in {<<123, 34, 97, 34, 58, 91, 49, 44, 50, 93, 125>> (* {\"a\":[1,2]} *), <<91, 49, 44, 10, 50, 93>> (* [1,\n2] *), <<123>> (* { *), <<>>} : RawJSON(1, <<114, 97, 119>> (* raw *), b)
    \/ \E k \in {<<117, 115, 101, 114>> (* user *), <<107, 34, 113>> (* k\"q *), <<108, 10, 107>> (* l\nk *)} : Str(1, k, <<97, 110, 110>> (* ann *))
    \/ \E val \in {<<97, 34, 98, 60, 99, 62>> (* a\"b<c> *), <<111, 110, 101, 10, 116, 119, 111>> (* one\ntwo *)} : Str(1, <<110, 97, 109, 101>> (* name *), val)
    \/ Strs(1, <<116, 97, 103, 115>> (* tags *), <<<<97>> (* a *), <<98, 38>> (* b& *)>>)
    \/ Bytes(1, <<98>> (* b *), <<255, 10, 226, 128, 168>> (* \xff\n\xe2\x80\xa8 *))
    \/ \E i \in {"map", "int", "a<b", "chan", "chan<-"} : Interface(1, <<118>> (* v *), i)
    \/ Caller(1, CI1)
    \/ Send(1)
    \/ \E msg \in {<<108, 111, 103, 105, 110, 32, 111, 107>> (* login ok *), <<117, 112, 10, 100, 111, 119, 110>> (* up\ndown *)} : Msg(1, msg)
    \/ Msgf(1, <<110, 61, 37, 100>> (* n=%d *), <<3>>)
    \/ Put(1)

SpecFields == Init /\ [][NextFields]_vars

-----------------------------------------------------------------------------
(* JSON syntax (RFC 8259) over byte sequences, to state what the records    *)
(* are. Positions are 1-based; an End operator returns the position after   *)
(* what it recognizes, or 0.                                                *)

IsWS(b) == b \in {32, 9, 10, 13}
IsDigit(b) == b >= 48 /\ b <= 57
IsHex(b) == IsDigit(b) \/ (b >= 97 /\ b <= 102) \/ (b >= 65 /\ b <= 70)

RECURSIVE SkipWS(_, _)
SkipWS(s, i) == IF i <= Len(s) /\ IsWS(s[i]) THEN SkipWS(s, i + 1) ELSE i

\* from the position after the opening quote
RECURSIVE StringEnd(_, _)
StringEnd(s, i) ==
    IF i > Len(s) THEN 0
    ELSE IF s[i] = 34 THEN i + 1
    ELSE IF s[i] < 32 THEN 0
    ELSE IF s[i] # 92 THEN StringEnd(s, i + 1)
    ELSE IF i + 1 > Len(s) THEN 0
    ELSE IF s[i + 1] \in {34, 92, 47, 98, 102, 110, 114, 116} THEN StringEnd(s, i + 2)
    ELSE IF s[i + 1] = 117 /\ i + 5 <= Len(s) /\ \A k \in 2..5 : IsHex(s[i + k])
         THEN StringEnd(s, i + 6)
    ELSE 0

RECURSIVE DigitsEnd(_, _)
DigitsEnd(s, i) == IF i <= Len(s) /\ IsDigit(s[i]) THEN DigitsEnd(s, i + 1) ELSE i

NumberEnd(s, i) ==
    LET a == IF i <= Len(s) /\ s[i] = 45 THEN i + 1 ELSE i
        b == IF a > Len(s) \/ ~IsDigit(s[a]) THEN 0
             ELSE IF s[a] = 48 THEN a + 1 ELSE DigitsEnd(s, a)
        c == IF b = 0 THEN 0
             ELSE IF b <= Len(s) /\ s[b] = 46
                  THEN (IF DigitsEnd(s, b + 1) = b + 1 THEN 0 ELSE DigitsEnd(s, b + 1))
             ELSE b
        x == IF c # 0 /\ c < Len(s) /\ s[c + 1] \in {43, 45} THEN c + 2 ELSE c + 1
    IN  IF c = 0 THEN 0
        ELSE IF c <= Len(s) /\ s[c] \in {101, 69}
             THEN (IF DigitsEnd(s, x) = x THEN 0 ELSE DigitsEnd(s, x))
        ELSE c

LiteralEnd(s, i, lit) ==
    IF i + Len(lit) - 1 <= Len(s) /\ SubSeq(s, i, i + Len(lit) - 1) = lit
    THEN i + Len(lit) ELSE 0

RECURSIVE ValueEnd(_, _)
RECURSIVE ElementsEnd(_, _)
RECURSIVE MembersEnd(_, _)

ValueEnd(s, i0) ==
    LET i == SkipWS(s, i0)
    IN  IF i > Len(s) THEN 0
        ELSE CASE s[i] = 34 -> StringEnd(s, i + 1)
               [] s[i] = 123 ->
                    (LET j == SkipWS(s, i + 1)
                     IN  IF j <= Len(s) /\ s[j] = 125 THEN j + 1 ELSE MembersEnd(s, j))
               [] s[i] = 91 ->
                    (LET j == SkipWS(s, i + 1)
                     IN  IF j <= Len(s) /\ s[j] = 93 THEN j + 1 ELSE ElementsEnd(s, j))
               [] s[i] = 116 -> LiteralEnd(s, i, <<116, 114, 117, 101>> (* true *))
               [] s[i] = 102 -> LiteralEnd(s, i, <<102, 97, 108, 115, 101>> (* false *))
               [] s[i] = 110 -> LiteralEnd(s, i, <<110, 117, 108, 108>> (* null *))
               [] s[i] = 45 \/ IsDigit(s[i]) -> NumberEnd(s, i)
               [] OTHER -> 0

\* the elements of an array from position i, up to and including "]"
ElementsEnd(s, i) ==
    LET v == ValueEnd(s, i)
        e == SkipWS(s, v)
    IN  IF v = 0 \/ e > Len(s) THEN 0
        ELSE IF s[e] = 93 THEN e + 1
        ELSE IF s[e] = 44 THEN ElementsEnd(s, e + 1)
        ELSE 0

\* the members of an object from position i0, up to and including "}"
MembersEnd(s, i0) ==
    LET i == SkipWS(s, i0)
        k == IF i <= Len(s) /\ s[i] = 34 THEN StringEnd(s, i + 1) ELSE 0
        c == SkipWS(s, k)
        v == IF k # 0 /\ c <= Len(s) /\ s[c] = 58 THEN ValueEnd(s, c + 1) ELSE 0
        e == SkipWS(s, v)
    IN  IF v = 0 \/ e > Len(s) THEN 0
        ELSE IF s[e] = 125 THEN e + 1
        ELSE IF s[e] = 44 THEN MembersEnd(s, e + 1)
        ELSE 0

\* s is one JSON object, whitespace allowed around it
IsJSONObject(s) ==
    LET i == SkipWS(s, 1)
        e == ValueEnd(s, i)
    IN  i <= Len(s) /\ s[i] = 123 /\ e # 0 /\ SkipWS(s, e) = Len(s) + 1

\* s is one JSON value
IsJSONValue(s) ==
    LET e == ValueEnd(s, 1) IN e # 0 /\ SkipWS(s, e) = Len(s) + 1

\* The members of the JSON object s in order, each [key, val] (the key's
\* bytes between its quotes, the value's text); <<>> when s has none
RECURSIVE MembersFrom(_, _)
MembersFrom(s, i0) ==
    LET i == SkipWS(s, i0)
        k == StringEnd(s, i + 1)
        c == SkipWS(s, k)
        v0 == SkipWS(s, c + 1)
        v == ValueEnd(s, v0)
        e == SkipWS(s, v)
        m == [key |-> SubSeq(s, i + 1, k - 2), val |-> SubSeq(s, v0, v - 1)]
    IN  IF s[e] = 44 THEN <<m>> \o MembersFrom(s, e + 1) ELSE <<m>>

Members(s) ==
    LET i == SkipWS(s, 1)
        j == SkipWS(s, i + 1)
    IN  IF ~IsJSONObject(s) \/ s[j] = 125 THEN <<>> ELSE MembersFrom(s, j)

Keys(s) == [n \in 1..Len(Members(s)) |-> Members(s)[n].key]

-----------------------------------------------------------------------------
(* What the claims speak of.                                                *)

\* The goroutine's call has passed the gate and not yet reached its terminal
Active(c) == pc[c] = "chain" /\ cur[c] # NIL

\* The level an entry point fixes
EntryLevel(entry) ==
    CASE entry \in {"Debug", "l.Debug"} -> DebugLevel
      [] entry \in {"Info", "l.Info"} -> InfoLevel
      [] entry \in {"Warn", "l.Warn"} -> WarnLevel
      [] entry \in {"Error", "l.Error"} -> ErrorLevel
      [] entry \in {"Fatal", "l.Fatal"} -> FatalLevel

PackageEntries == {"Debug", "Info", "Warn", "Error", "Fatal"}
MethodEntries == {"l.Debug", "l.Info", "l.Warn", "l.Error", "l.Fatal"}

\* The writes of both writers
AllWrites == sink["w0"] \o sink["w1"] \o sink["wf"]

NothingWritten == \A w \in Writers : sink[w] = <<>>

\* C1: on return from an entry point the event is active exactly when the
\* requested level (one of the five) is not below the Logger's minimum level;
\* Debug .. Fatal, as methods and as package functions (on DefaultLogger),
\* give what WithLevel gives at their fixed level.
C1_GateIff ==
    \A c \in Callers :
        pc[c] = "chain" =>
            /\ call[c].entry = "WithLevel" /\ call[c].level \in Levels =>
                   ((cur[c] # NIL) <=> (call[c].level >= call[c].logger.Level))
            /\ call[c].entry \in MethodEntries =>
                   ((cur[c] # NIL) <=> (EntryLevel(call[c].entry) >= call[c].logger.Level))
            /\ call[c].entry \in PackageEntries =>
                   ((cur[c] # NIL) <=> (EntryLevel(call[c].entry) >= DefaultLogger.Level))

\* C1 witness: WithLevel at exactly the Logger's minimum level has returned
\* an active event
C1_Witness ==
    \E c \in Callers :
        /\ pc[c] = "chain"
        /\ call[c].entry = "WithLevel"
        /\ call[c].level = WarnLevel
        /\ call[c].logger.Level = WarnLevel
        /\ cur[c] # NIL

\* C2: once the gate has returned nil, no step of the chain (an append, a
\* terminal call) and not the gate itself changes the pool, the heap, the
\* sinks or the process; every append leaves the event nil.
C2_InactiveNoOp ==
    [][\A c \in Callers :
          /\ (pc[c] = "idle" /\ pc'[c] = "chain" /\ cur'[c] = NIL) =>
                 UNCHANGED <<pool, events, sink, exit>>
          /\ (pc[c] = "chain" /\ cur[c] = NIL /\ (call'[c] # call[c] \/ pc'[c] # pc[c])) =>
                 (cur'[c] = NIL /\ UNCHANGED <<pool, events, sink, exit>>)]_vars

\* C2 witness: a gated-out call whose chain of two appends and Msgf is over,
\* with nothing written
C2_Witness ==
    \E c \in Callers :
        /\ pc[c] = "idle"
        /\ ncalls[c] = 1
        /\ call[c].level < call[c].logger.Level
        /\ Len(call[c].fields) = 2
        /\ call[c].term.op = "Msgf"
        /\ NothingWritten
        /\ pool = {}
        /\ exit = <<>>

EndsWith(s, t) == Len(s) >= Len(t) /\ SubSeq(s, Len(s) - Len(t) + 1, Len(s)) = t
StartsWith(s, t) == Len(s) >= Len(t) /\ SubSeq(s, 1, Len(t)) = t

\* C3: the terminal call of an accepted non-fatal call makes exactly one
\* Write, of the whole buffer (what the gate and the appends left, then for
\* Msg the message field) closed by "}" and a newline; the gate and the
\* appends write nothing.
C3_OneWrite ==
    [][\A c \in Callers :
          /\ (pc[c] = "chain" /\ pc'[c] = "put") =>
                 LET before == events[cur[c]].buf
                     after == events'[cur[c]].buf
                 IN  /\ \E w \in Writers :
                            sink' = [sink EXCEPT ![w] = Append(@, RecordWrite(after))]
                     /\ EndsWith(after, <<125, 10>> (* }\n *))
                     /\ call'[c].term.op = "Send" => after = before \o <<125, 10>> (* }\n *)
                     /\ call'[c].term.op # "Send" =>
                            /\ StartsWith(after, before \o <<44, 34, 109, 101, 115, 115, 97, 103, 101, 34, 58, 34>> (* ,\"message\":\" *))
                            /\ EndsWith(after, <<34, 125, 10>> (* \"}\n *))
          /\ (pc[c] = "idle" /\ pc'[c] = "chain") => sink' = sink
          /\ (pc[c] = "chain" /\ pc'[c] = "chain" /\ call'[c] # call[c]) => sink' = sink]_vars

\* C3 witness: an accepted non-fatal call with two fields has made its
\* terminal call, and its writer holds one write
C3_Witness ==
    \E c \in Callers :
        /\ pc[c] = "put"
        /\ Len(call[c].fields) = 2
        /\ call[c].term.op = "Msg"
        /\ Len(AllWrites) = 1

\* The name of the time field of Logger l
TimeKey(l) == IF l.TimeField = <<>> THEN <<116, 105, 109, 101>> (* time *) ELSE l.TimeField

\* The key a field call writes
FieldKey(f) ==
    CASE f.op = "Err" -> <<101, 114, 114, 111, 114>> (* error *)
      [] f.op = "Timestamp" -> <<116, 105, 109, 101, 115, 116, 97, 109, 112>> (* timestamp *)
      [] f.op = "Caller" -> <<99, 97, 108, 108, 101, 114>> (* caller *)
      [] OTHER -> f.key

\* The five level tags, by level
TagOf(level) ==
    CASE level = DebugLevel -> <<100, 101, 98, 117, 103>> (* debug *)
      [] level = InfoLevel -> <<105, 110, 102, 111>> (* info *)
      [] level = WarnLevel -> <<119, 97, 114, 110>> (* warn *)
      [] level = ErrorLevel -> <<101, 114, 114, 111, 114>> (* error *)
      [] level = FatalLevel -> <<102, 97, 116, 97, 108>> (* fatal *)

Tags == {TagOf(level) : level \in Levels}

Quoted(s) == <<34>> (* \" *) \o s \o <<34>> (* \" *)

\* The keys claim C4 lists for the record of call k: time, level, caller
\* when the Logger captures it, the user fields as issued, message for Msg
ClaimedKeys(k) ==
    <<TimeKey(k.logger), <<108, 101, 118, 101, 108>> (* level *)>>
        \o (IF k.logger.Caller THEN <<<<99, 97, 108, 108, 101, 114>> (* caller *)>> ELSE <<>>)
        \o [n \in 1..Len(k.fields) |-> FieldKey(k.fields[n])]
        \o (IF k.term.op \in {"Msg", "Msgf"} THEN <<<<109, 101, 115, 115, 97, 103, 101>> (* message *)>> ELSE <<>>)

\* The record the goroutine's terminal call has just written (one goroutine)
Written(c) == sink[call[c].logger.Writer][Len(sink[call[c].logger.Writer])].data

JustWritten(c) == pc[c] \in {"put", "dump"}

\* C4 (as claimed): the record of every accepted call lists time, level,
\* caller (when captured), the user fields in call order and message (for
\* Msg), with no comma before the closing brace.
C4_FieldOrder ==
    \A c \in Callers :
        JustWritten(c) =>
            /\ Keys(Written(c)) = ClaimedKeys(call[c])
            /\ Written(c)[Len(Written(c)) - 2] # Comma

-----------------------------------------------------------------------------
(* C5: the buffer between the gate and the terminal call.                   *)

\* Bytes that a JSON string holds as they are
PlainText(s) == \A i \in 1..Len(s) : safeSet(s[i])

\* Field call f writes a key that needs no escaping and a value that is JSON
\* whatever the caller passed
CleanField(f) ==
    /\ PlainText(FieldKey(f))
    /\ f.op = "RawJSON" => IsJSONValue(f.val)
    /\ f.op = "Float64" => f.val # "NaN"
    /\ f.op = "Time" => f.val.year \in 0..9999

\* Call k has a plain time field name, time layout and file name, a year of
\* four digits, and clean field calls
CleanCall(k) ==
    /\ k.now.year \in 0..9999
    /\ PlainText(k.logger.TimeField)
    /\ PlainText(k.logger.TimeFormat)
    /\ PlainText(k.ci.file)
    /\ \A n \in 1..Len(k.fields) : CleanField(k.fields[n])

\* The keys of the entries the gate and the appends of call k have written
PrefixKeys(k) ==
    <<TimeKey(k.logger), <<108, 101, 118, 101, 108>> (* level *)>>
        \o (IF k.logger.Caller THEN <<<<99, 97, 108, 108, 101, 114>> (* caller *)>> ELSE <<>>)
        \o [n \in 1..Len(k.fields) |-> FieldKey(k.fields[n])]

\* C5 (as claimed): the buffer of every active event, after any appends,
\* begins with "{" and is a well-formed JSON object once "}" is appended.
C5_Original ==
    \A c \in Callers :
        Active(c) =>
            /\ events[cur[c]].buf[1] = 123
            /\ IsJSONObject(events[cur[c]].buf \o <<125>> (* } *))

\* C5 (amended): the buffer of every active event begins with "{"; when the
\* keys (and the time field name) need no escaping, every RawJSON payload is
\* itself a JSON value, every float is finite and every year has four
\* digits, the buffer with "}" appended is a well-formed JSON object holding
\* one entry per append, in order, after the header's entries.
C5_ValidPrefix ==
    \A c \in Callers :
        Active(c) =>
            /\ events[cur[c]].buf[1] = 123
            /\ CleanCall(call[c]) =>
                   /\ IsJSONObject(events[cur[c]].buf \o <<125>> (* } *))
                   /\ Keys(events[cur[c]].buf \o <<125>> (* } *)) = PrefixKeys(call[c])

\* C5 witness: an active event after a RawJSON append of a JSON value and an
\* Interface append, all of the call clean
C5_Witness ==
    \E c \in Callers :
        /\ Active(c)
        /\ Len(call[c].fields) = 2
        /\ call[c].fields[1].op = "RawJSON"
        /\ call[c].fields[2].op = "Interface"
        /\ CleanCall(call[c])

-----------------------------------------------------------------------------
(* C6, C7: the time and level entries of a record.                          *)

\* The record holds key k
HasKey(rec, k) == \E n \in 1..Len(Keys(rec)) : Keys(rec)[n] = k

\* C6 (as claimed): every record written holds the keys "time" and "level",
\* and its level value is one of the five tags.
C6_TimeAndLevel ==
    \A w \in Writers : \A i \in 1..Len(sink[w]) :
        sink[w][i].kind = "record" =>
            LET m == Members(sink[w][i].data)
            IN  /\ \E n \in 1..Len(m) : m[n].key = <<116, 105, 109, 101>> (* time *)
                /\ \E n \in 1..Len(m) :
                       m[n].key = <<108, 101, 118, 101, 108>> (* level *) /\ m[n].val \in {Quoted(t) : t \in Tags}

\* C6 (amended): the first entry of every record written is the time entry,
\* under the Logger's time field name ("time" when none is configured); for
\* a level of the enumeration the second entry is "level" with that level's
\* tag, and for any other level that passes the gate the record holds no
\* "level" entry.
C6_TimeKeyAndLevel ==
    \A c \in Callers :
        JustWritten(c) =>
            LET m == Members(Written(c))
            IN  /\ Len(m) >= 1
                /\ m[1].key = TimeKey(call[c].logger)
                /\ StartsWith(Written(c),
                              <<123>> (* { *) \o Quoted(TimeKey(call[c].logger)) \o <<58, 34>> (* :\" *))
                /\ IF call[c].level \in Levels
                   THEN /\ Len(m) >= 2
                        /\ m[2].key = <<108, 101, 118, 101, 108>> (* level *)
                        /\ m[2].val = Quoted(TagOf(call[c].level))
                   ELSE ~HasKey(Written(c), <<108, 101, 118, 101, 108>> (* level *))

\* C6 witness: a record written at Warn through a Logger with a custom time
\* field name and a custom time format
C6_Witness ==
    \E c \in Callers :
        /\ JustWritten(c)
        /\ call[c].logger = LogB
        /\ call[c].level = WarnLevel
        /\ HasKey(Written(c), <<116, 115>> (* ts *))

\* C7 (as claimed): WithLevel with a level outside the enumeration returns
\* nil, and nothing is written for that call.
C7_OutOfRangeDisabled ==
    \A c \in Callers :
        (pc[c] # "idle" /\ call[c].entry = "WithLevel" /\ call[c].level \notin Levels) =>
            /\ cur[c] = NIL
            /\ NothingWritten

-----------------------------------------------------------------------------
(* C8, C9, C10: the pool under concurrent callers.                          *)

\* Goroutine c holds an instance: from its acquisition to the end of its
\* terminal call
Live(c) == pc[c] # "idle" /\ cur[c] # NIL

\* C8: at every reachable state no Event instance is held by two live
\* goroutines, and no instance held by a live goroutine is in the pool.
C8_Exclusive ==
    \A c \in Callers :
        Live(c) =>
            /\ cur[c] \notin pool
            /\ \A d \in Callers \ {c} : Live(d) => cur[d] # cur[c]

\* C8 witness: every goroutine is live, and an instance that went through
\* the pool is held again
C8_Witness ==
    /\ \A c \in Callers : Live(c)
    /\ \E c \in Callers : ncalls[c] >= 1
    /\ Len(events) = NCallers

RECURSIVE Appended(_, _)
\* The event after the field calls fs, in order
Appended(e, fs) == IF fs = <<>> THEN e ELSE Appended(Apply(e, Head(fs)), Tail(fs))

\* What call k alone makes of a new Event: its header, then its appends
OwnEvent(k) == Appended(Header(NewEvent, k.logger, k.level, k.now, k.ci), k.fields)

\* The record of call k alone
RecordOf(k) ==
    IF k.term.op = "Send" THEN Closed(OwnEvent(k).buf)
    ELSE MsgClosed(OwnEvent(k), k.term.msg)

\* The calls that have made their Write
Done == {<<c, j>> \in Callers \X (1..MaxCalls) : j <= Len(hist[c])}

\* C9: whatever an instance was used for before, the event of an accepted
\* call is what the call makes of a new Event (buffer, fatal flag, escape
\* flag, time format, write target); every record written is the record of
\* one call alone, at that call's Logger's writer; and a call is on the fatal
\* path exactly when its own level is Fatal.
C9_Reinitialized ==
    /\ \A c \in Callers :
           /\ Active(c) => events[cur[c]] = OwnEvent(call[c])
           /\ pc[c] \in {"dump", "dumpall", "exit"} => call[c].level = FatalLevel
           /\ pc[c] = "put" => call[c].level # FatalLevel
    /\ \A w \in Writers : \A i \in 1..Len(sink[w]) :
           sink[w][i].kind = "record" =>
               \E d \in Done :
                   /\ hist[d[1]][d[2]].logger.Writer = w
                   /\ sink[w][i].data = RecordOf(hist[d[1]][d[2]])

\* C9 witness: an active event, with a field appended, on the only instance
\* there is, which an earlier call through another Logger has used
C9_Witness ==
    \E c \in Callers :
        /\ Active(c)
        /\ Len(events) = 1
        /\ Len(call[c].fields) = 1
        /\ \E d \in Done : hist[d[1]][d[2]].logger # call[c].logger

\* All goroutines have made all their calls, every one accepted and through
\* Logger l
Quiescent(l) ==
    /\ \A c \in Callers : pc[c] = "idle" /\ Len(hist[c]) = MaxCalls
    /\ \A d \in Done : hist[d[1]][d[2]].logger = l

\* The number of records with bytes r that writer w holds
Received(w, r) ==
    Cardinality({i \in 1..Len(sink[w]) : sink[w][i].kind = "record" /\ sink[w][i].data = r})

\* C10: under every interleaving each writer holds, as many times as they
\* were written, the complete records of the calls made through it and
\* nothing else; once NCallers goroutines have each made MaxCalls accepted
\* calls through one Logger, its writer holds exactly NCallers * MaxCalls
\* records and the other writer none.
C10_AllRecords ==
    \* sent: for each call that has written, its writer and its own record
    \A sent \in {{[call |-> d, writer |-> hist[d[1]][d[2]].logger.Writer,
                   data |-> RecordOf(hist[d[1]][d[2]])] : d \in Done}} :
        /\ \A w \in Writers :
               /\ \A i \in 1..Len(sink[w]) :
                      sink[w][i].kind = "record" =>
                          \E s \in sent : s.writer = w /\ s.data = sink[w][i].data
               /\ \A s \in sent :
                      s.writer = w =>
                          Received(w, s.data) =
                              Cardinality({x \in sent : x.writer = w /\ x.data = s.data})
        /\ \A l \in {DefaultLogger, LogB} :
               Quiescent(l) =>
                   /\ Len(sink[l.Writer]) = NCallers * MaxCalls
                   /\ \A i \in 1..Len(sink[l.Writer]) :
                          /\ sink[l.Writer][i].kind = "record"
                          /\ IsJSONObject(sink[l.Writer][i].data)
                   /\ \A w \in Writers \ {l.Writer} : sink[w] = <<>>

\* C10 witness: every goroutine has made all its calls, all through
\* DefaultLogger, whose writer holds them all, the first two being different
\* records
C10_Witness ==
    /\ Quiescent(DefaultLogger)
    /\ Len(sink["w0"]) = NCallers * MaxCalls
    /\ sink["w0"][1].data # sink["w0"][2].data

-----------------------------------------------------------------------------
(* C11: the fatal path.                                                     *)

\* The goroutines' steps are taken as long as they can be: a goroutine inside
\* a terminal call goes on to its next statement
SpecGateLive == SpecGate /\ WF_vars(NextGate)

\* The kinds of the writes writer w received, in order
Kinds(w) == [i \in 1..Len(sink[w]) |-> sink[w][i].kind]

\* The writes the one call of goroutine c has made, by the point it stands at
FatalPath(c) ==
    LET w == call[c].logger.Writer
    IN  /\ pc[c] \in {"dump", "dumpall", "exit"} =>
               /\ call[c].level = FatalLevel
               /\ call[c].term.op \in {"Send", "Msg", "Msgf"}
               /\ cur[c] \notin pool
        /\ pc[c] = "dump" => Kinds(w) = <<"record">> /\ exit = <<>>
        /\ pc[c] = "dumpall" => Kinds(w) = <<"record", "stack">> /\ exit = <<>>
        /\ pc[c] = "exit" =>
               /\ Kinds(w) = <<"record", "stack", "stacks">>
               /\ sink[w][1].data = RecordOf(call[c])
               /\ sink[w][2].len \in {stacks(FALSE, need).len : need \in StackNeeds}
               /\ sink[w][3].len \in {stacks(TRUE, need).len : need \in StackNeeds}
               /\ exit \in {<<>>, <<ExitStatus>>}
               /\ pool = {}
        /\ (pc[c] # "idle" /\ cur[c] # NIL /\ call[c].level # FatalLevel) =>
               /\ pc[c] \in {"chain", "put"}
               /\ exit = <<>>
               /\ \A i \in 1..Len(sink[w]) : sink[w][i].kind = "record"
        /\ pc[c] = "put" => call[c].level # FatalLevel

\* C11: the terminal call of an event created at Fatal writes the record,
\* then this goroutine's stack, then all stacks, to the Logger's writer, then
\* exits the process with status 255, and the event is never put into the
\* pool; the terminal call of an event of another level writes no stack dump
\* and does not exit.
C11_FatalPath ==
    /\ [](\A c \in Callers : FatalPath(c))
    /\ [](exit # <<>> => exit = <<ExitStatus>> /\ \E c \in Callers : pc[c] = "exit")
    /\ (\E c \in Callers : pc[c] = "dump") ~> (exit = <<ExitStatus>>)

\* C11 witness: the process has exited with status 255 on Msg of an event
\* created at Fatal, the writer holding the record and the two dumps
C11_Witness ==
    \E c \in Callers :
        /\ exit = <<255>>
        /\ pc[c] = "exit"
        /\ call[c].term.op = "Msg"
        /\ call[c].level = FatalLevel
        /\ Len(sink[call[c].logger.Writer]) = 3

-----------------------------------------------------------------------------
(* C12: the way into the pool.                                              *)

\* Instance e is held by a goroutine that has not made its terminal call
Unconsumed(e) == \E c \in Callers : Active(c) /\ cur[c] = e

\* Goroutine c is in a terminal call on the non-fatal instance e, after its
\* Write of the record
AfterWrite(c, e) ==
    /\ pc[c] = "put"
    /\ cur[c] = e
    /\ ~events[e].fatal
    /\ call[c].term.op \in {"Send", "Msg", "Msgf"}
    /\ \E i \in 1..Len(sink[events[e].write]) :
           sink[events[e].write][i] = RecordWrite(events[e].buf)

\* C12: an instance enters the pool only by the Put of a terminal call on an
\* active non-fatal event, after that call's Write; no entry point and no
\* append puts one in, and an instance still awaiting its terminal call is
\* not in the pool.
C12_PoolEntry ==
    /\ [](\A e \in pool : ~Unconsumed(e))
    /\ [][\A e \in pool' \ pool :
              \E c \in Callers : AfterWrite(c, e) /\ pc'[c] = "idle"]_vars
    /\ [][\A c \in Callers :
              /\ (pc[c] = "idle" /\ pc'[c] = "chain") => pool' \subseteq pool
              /\ (pc[c] = "chain" /\ pc'[c] = "chain" /\ call'[c] # call[c]) =>
                     pool' = pool]_vars

\* C12 witness: an instance is back in the pool after a call's Put while
\* another goroutine is between its entry point and its terminal call
C12_Witness ==
    /\ pool # {}
    /\ \E c \in Callers : Active(c) /\ Len(call[c].fields) = 1
    /\ \E c \in Callers : ncalls[c] >= 1 /\ pc[c] = "idle"

-----------------------------------------------------------------------------
(* JSON string literals decoded (RFC 8259, section 7), to state what the    *)
(* escaper's output stands for.                                             *)

HexVal(b) == IF IsDigit(b) THEN b - 48 ELSE IF b >= 97 THEN b - 87 ELSE b - 55

\* The UTF-8 encoding of a code point of the basic plane
EncodeRune(r) ==
    IF r < 128 THEN <<r>>
    ELSE IF r < 2048 THEN <<192 + (r \div 64), 128 + (r % 64)>>
    ELSE <<224 + (r \div 4096), 128 + ((r \div 64) % 64), 128 + (r % 64)>>

\* The character a two-byte escape stands for
Unescaped(b) ==
    CASE b = 110 -> 10
      [] b = 114 -> 13
      [] b = 116 -> 9
      [] b = 98 -> 8
      [] b = 102 -> 12
      [] OTHER -> b

\* The bytes the string body from position i to its closing quote stands for
RECURSIVE DecodeFrom(_, _)
DecodeFrom(s, i) ==
    IF i > Len(s) \/ s[i] = 34 THEN <<>>
    ELSE IF s[i] # 92 THEN <<s[i]>> \o DecodeFrom(s, i + 1)
    ELSE IF s[i + 1] = 117
         THEN EncodeRune(4096 * HexVal(s[i + 2]) + 256 * HexVal(s[i + 3])
                             + 16 * HexVal(s[i + 4]) + HexVal(s[i + 5]))
                  \o DecodeFrom(s, i + 6)
    ELSE <<Unescaped(s[i + 1])>> \o DecodeFrom(s, i + 2)

\* lit is exactly one JSON string literal, quotes included
IsJSONString(lit) == Len(lit) >= 2 /\ lit[1] = 34 /\ StringEnd(lit, 2) = Len(lit) + 1

\* The string a JSON string literal stands for
Decoded(lit) == DecodeFrom(lit, 2)

\* No byte of s is "<", ">" or "&"
NoHTML(s) == \A i \in 1..Len(s) : s[i] \notin {60, 62, 38}

-----------------------------------------------------------------------------
(* C13: a marshaling failure in Interface.                                  *)

\* Field call f is an Interface call whose value json.Marshal rejects
Failing(f) == f.op = "Interface" /\ Marshal(f.val)[2] # <<>>

\* The bytes field call f of call k appends, whatever the buffer holds
Piece(k, f) ==
    Apply([NewEvent EXCEPT !.escapeHTML = k.logger.EscapeHTML,
                           !.timeFormat = k.logger.TimeFormat], f).buf

RECURSIVE Pieces(_, _)
Pieces(k, fs) == IF fs = <<>> THEN <<>> ELSE Piece(k, Head(fs)) \o Pieces(k, Tail(fs))

\* The buffer of call k after its appends: the header, then each field's
\* own bytes
Assembled(k) == Header(NewEvent, k.logger, k.level, k.now, k.ci).buf \o Pieces(k, k.fields)

\* The value text of the entry that Interface call f of call k appends
ValueOf(k, f) == SubSeq(Piece(k, f), Len(f.key) + 5, Len(Piece(k, f)))

\* C13: when json.Marshal fails, the Interface entry is the key and one
\* JSON string literal standing for "marshaling error: " and the error's
\* message (escaped as the event's HTML flag asks); the fields before and
\* after it are encoded as they are without it, the terminal call writes the
\* record, and the event goes back to the pool.
C13_MarshalFailure ==
    \A c \in Callers :
        (cur[c] # NIL \/ pc[c] = "idle") =>
            \A n \in 1..Len(call[c].fields) :
                Failing(call[c].fields[n]) =>
                    LET k == call[c]
                        f == k.fields[n]
                        lit == ValueOf(k, f)
                    IN  /\ Piece(k, f) = <<44, 34>> (* ,\" *) \o f.key \o <<34, 58>> (* \": *) \o lit
                        /\ IsJSONString(lit)
                        /\ Decoded(lit) = <<109, 97, 114, 115, 104, 97, 108, 105, 110, 103, 32, 101, 114, 114, 111, 114, 58, 32>> (* marshaling error:  *) \o Marshal(f.val)[2][1]
                        /\ k.logger.EscapeHTML => NoHTML(lit)
                        /\ Active(c) => events[cur[c]].buf = Assembled(k)
                        /\ pc[c] = "put" =>
                               /\ StartsWith(Written(c), Assembled(k))
                               /\ EndsWith(Written(c), <<125, 10>> (* }\n *))
                               /\ Len(sink[k.logger.Writer]) = 1
                        /\ (pc[c] = "idle" /\ ncalls[c] = 1) =>
                               /\ pool = {1}
                               /\ Len(sink[k.logger.Writer]) = 1

\* C13 witness: a call whose first append was an Interface call that failed
\* to marshal and whose second was Str has written its record and put its
\* event back
C13_Witness ==
    \E c \in Callers :
        /\ pc[c] = "idle"
        /\ ncalls[c] = 1
        /\ Len(call[c].fields) = 2
        /\ Failing(call[c].fields[1])
        /\ call[c].fields[1].val = "chan<-"
        /\ call[c].fields[2].op = "Str"
        /\ call[c].logger.EscapeHTML
        /\ pool = {1}

-----------------------------------------------------------------------------
(* C14: a writer that fails. Specification SpecFail: one goroutine making   *)
(* MaxCalls calls, through a Logger whose writer fails and through          *)
(* DefaultLogger.                                                           *)

LogFail == [DefaultLogger EXCEPT !.Writer = "wf"]

NextFail ==
    \/ \E l \in {DefaultLogger, LogFail}, level \in {ErrorLevel, FatalLevel} :
           WithLevel(1, l, level, T0, NoCI)
    \/ Str(1, <<120>> (* x *), <<121>> (* y *))
    \/ Send(1)
    \/ Msg(1, <<109>> (* m *))
    \/ \E need \in StackNeeds : DumpStack(1, need)
    \/ \E need \in StackNeeds : DumpAllStacks(1, need)
    \/ Exit(1)
    \/ Put(1)

SpecFail == Init /\ [][NextFail]_vars

\* The number of Write calls for records that writer w has received
RecordWritesTo(w) == Cardinality({i \in 1..Len(sink[w]) : sink[w][i].kind = "record"})

\* The number of calls through writer w that have reached their Write
CallsThrough(w) == Cardinality({d \in Done : hist[d[1]][d[2]].logger.Writer = w})

\* C14: a terminal call makes one Write attempt for its record also when the
\* writer reports a failure, and goes on as after a success: to Put for a
\* non-fatal event, to the two stack dumps and the exit for a fatal one; the
\* next call finds the pool and the instance as after a successful write.
C14_WriteFailureIgnored ==
    /\ [](\A w \in Writers : RecordWritesTo(w) = CallsThrough(w))
    /\ [](\A c \in Callers : Active(c) => events[cur[c]] = OwnEvent(call[c]))
    /\ [][\A c \in Callers :
              (pc[c] = "chain" /\ cur[c] # NIL /\ pc'[c] # "chain") =>
                  /\ pc'[c] = IF call[c].level = FatalLevel THEN "dump" ELSE "put"
                  /\ Len(sink'[call[c].logger.Writer]) = Len(sink[call[c].logger.Writer]) + 1]_vars
    /\ [][\A c \in Callers :
              /\ pc[c] = "put" => (pc'[c] = "idle" /\ pool' = pool \cup {cur[c]})
              /\ pc[c] = "dump" => (pc'[c] = "dumpall" /\ Kinds(call[c].logger.Writer)' =
                                        Append(Kinds(call[c].logger.Writer), "stack"))
              /\ pc[c] = "dumpall" => (pc'[c] = "exit" /\ Kinds(call[c].logger.Writer)' =
                                           Append(Kinds(call[c].logger.Writer), "stacks"))
              /\ pc[c] = "exit" => exit' = <<ExitStatus>>]_vars

\* C14 witness: after a call whose Write failed, the next call, through the
\* same Logger, has got the instance back from the pool and has appended a
\* field to it
C14_Witness ==
    \E c \in Callers :
        /\ Active(c)
        /\ ncalls[c] = 1
        /\ hist[c][1].logger = LogFail
        /\ call[c].logger = LogFail
        /\ Len(events) = 1
        /\ Len(call[c].fields) = 1
        /\ Len(sink["wf"]) = 1

-----------------------------------------------------------------------------
(* C15: the string escaper. Specification SpecEscape: one call appending    *)
(* one string of at most MaxLen bytes, with and without HTML escaping.      *)

MaxLen == 3

\* Bytes of every class the escaper tells apart: a plain letter, the quote,
\* the backslash, a newline, another control byte, "<", ">", "&", and lead
\* and continuation bytes of UTF-8, among them those of U+2028, and 0xFF
Alphabet == {97, 34, 92, 10, 1, 60, 62, 38, 195, 169, 226, 128, 168, 255}

Strings == UNION {[1..n -> Alphabet] : n \in 0..MaxLen}

LogH == [DefaultLogger EXCEPT !.EscapeHTML = TRUE]

NextEscape ==
    \/ /\ ncalls[1] = 0
       /\ \E l \in {DefaultLogger, LogH} : WithLevel(1, l, InfoLevel, T0, NoCI)
    \/ call[1].fields = <<>> /\ \E s \in Strings : Str(1, <<115>> (* s *), s)
    \/ Send(1)
    \/ Put(1)

SpecEscape == Init /\ [][NextEscape]_vars

\* r is the UTF-8 encoding of one code point (RFC 3629)
ValidRune(r) ==
    LET cont(b) == b >= 128 /\ b <= 191
    IN  CASE Len(r) = 1 -> r[1] < 128
          [] Len(r) = 2 -> r[1] >= 194 /\ r[1] <= 223 /\ cont(r[2])
          [] Len(r) = 3 ->
               /\ cont(r[3])
               /\ \/ r[1] = 224 /\ r[2] >= 160 /\ r[2] <= 191
                  \/ r[1] \in (225..236) \cup {238, 239} /\ cont(r[2])
                  \/ r[1] = 237 /\ r[2] >= 128 /\ r[2] <= 159
          [] Len(r) = 4 ->
               /\ cont(r[3]) /\ cont(r[4])
               /\ \/ r[1] = 240 /\ r[2] >= 144 /\ r[2] <= 191
                  \/ r[1] \in 241..243 /\ cont(r[2])
                  \/ r[1] = 244 /\ r[2] >= 128 /\ r[2] <= 143
          [] OTHER -> FALSE

\* s with every byte that is not part of the encoding of a code point
\* replaced by U+FFFD
RECURSIVE Sanitized(_)
Sanitized(s) ==
    IF s = <<>> THEN <<>>
    ELSE IF \E n \in 1..4 : n <= Len(s) /\ ValidRune(SubSeq(s, 1, n))
    THEN LET n == CHOOSE n \in 1..4 : n <= Len(s) /\ ValidRune(SubSeq(s, 1, n))
         IN  SubSeq(s, 1, n) \o Sanitized(SubSeq(s, n + 1, Len(s)))
    ELSE <<239, 191, 189>> \o Sanitized(Tail(s))

ValidUTF8(s) == Sanitized(s) = s

\* The value text of the one Str entry of the active call of goroutine c
StrLiteral(c) ==
    LET k == call[c]
    IN  SubSeq(events[cur[c]].buf,
               Len(Header(NewEvent, k.logger, k.level, k.now, k.ci).buf)
                   + Len(k.fields[1].key) + 5,
               Len(events[cur[c]].buf))

\* Goroutine c has appended one string and not yet made its terminal call
Escaped(c) ==
    Active(c) /\ Len(call[c].fields) = 1 /\ call[c].fields[1].op = "Str"

\* C15 (as claimed): for every string S the escaper's output without HTML
\* escaping stands, as a JSON string literal, for S itself; its output with
\* HTML escaping holds no "<", ">" or "&" byte.
C15_RoundTripAll ==
    \A c \in Callers :
        Escaped(c) =>
            /\ IsJSONString(StrLiteral(c))
            /\ ~call[c].logger.EscapeHTML => Decoded(StrLiteral(c)) = call[c].fields[1].val
            /\ call[c].logger.EscapeHTML => NoHTML(StrLiteral(c))

\* C15 (amended): for every string S the escaper's output, with or without
\* HTML escaping, is a JSON string literal standing for S with every byte
\* that is not part of a valid UTF-8 sequence replaced by U+FFFD, hence for
\* S itself when S is valid UTF-8; with HTML escaping it holds no "<", ">"
\* or "&" byte.
C15_RoundTrip ==
    \A c \in Callers :
        Escaped(c) =>
            /\ IsJSONString(StrLiteral(c))
            /\ Decoded(StrLiteral(c)) = Sanitized(call[c].fields[1].val)
            /\ ValidUTF8(call[c].fields[1].val) =>
                   Decoded(StrLiteral(c)) = call[c].fields[1].val
            /\ call[c].logger.EscapeHTML => NoHTML(StrLiteral(c))

\* C15 witness: the string of a quote, "<" and the first byte of a
\* two-byte sequence cut short has been escaped with HTML escaping
C15_Witness ==
    \E c \in Callers :
        /\ Escaped(c)
        /\ call[c].logger.EscapeHTML
        /\ call[c].fields[1].val = <<34, 60, 195>>
        /\ StrLiteral(c) = <<34, 92, 34, 92, 117, 48, 48, 51, 99, 92, 117, 102, 102, 102, 100, 34>> (* \"\\\"\\u003c\\ufffd\" *)

-----------------------------------------------------------------------------
(* C16, C17: the timestamp formatter. Specification SpecTime: one call at   *)
(* each of a set of times, through DefaultLogger.                           *)


\* Times with the first and last year of four digits, a leap day, one- and
\* two-digit fields, and milliseconds that are zero, end in zeros, or are
\* followed by further digits
TimeInputs ==
    {[year |-> y, month |-> md[1], day |-> md[2], hour |-> hms[1],
      minute |-> hms[2], second |-> hms[3], nsec |-> ns] :
        y \in {1000, 1999, 2024, 9999},
        md \in {<<1, 1>>, <<2, 28>>, <<10, 9>>, <<12, 31>>},
        hms \in {<<0, 0, 0>>, <<9, 5, 7>>, <<23, 59, 59>>},
        ns \in {0, 999999, 7123456, 100000000, 120000000, 123456789, 999999999}}
    \cup {[T0 EXCEPT !.nsec = ns] : ns \in {0, 7999999, 990000000}}

NextTime ==
    \/ /\ ncalls[1] = 0
       /\ \E now \in TimeInputs : WithLevel(1, DefaultLogger, InfoLevel, now, NoCI)
    \/ Send(1)
    \/ Put(1)

SpecTime == Init /\ [][NextTime]_vars

\* The time value of the header of the active call of goroutine c
TimeLiteral(c) == Members(events[cur[c]].buf \o <<125>> (* } *))[1].val

LayoutTrimmed == <<50, 48, 48, 54, 45, 48, 49, 45, 48, 50, 84, 49, 53, 58, 48, 52, 58, 48, 53, 46, 57, 57, 57, 90>> (* 2006-01-02T15:04:05.999Z *)
LayoutFixed == <<50, 48, 48, 54, 45, 48, 49, 45, 48, 50, 84, 49, 53, 58, 48, 52, 58, 48, 53, 46, 48, 48, 48, 90>> (* 2006-01-02T15:04:05.000Z *)

\* The time formatted by package time with the layout, in quotes
Formatted(now, layout) == Quoted(AppendFormat(<<>>, now, layout))

\* C16 (as claimed): for every time with a year in 1000..9999 the fast
\* formatter writes what package time's formatter writes for the layout
\* 2006-01-02T15:04:05.999Z.
C16_SameAsLayout999 ==
    \A c \in Callers :
        Active(c) => TimeLiteral(c) = Formatted(call[c].now, LayoutTrimmed)

\* C16 (amended): for every time with a year in 1000..9999 the fast
\* formatter writes what package time's formatter writes for the layout
\* 2006-01-02T15:04:05.000Z: three millisecond digits always, cut and not
\* rounded; this is what the layout 2006-01-02T15:04:05.999Z gives exactly
\* when the last millisecond digit is not zero.
C16_SameAsLayout000 ==
    \A c \in Callers :
        Active(c) =>
            /\ TimeLiteral(c) = Formatted(call[c].now, LayoutFixed)
            /\ (TimeLiteral(c) = Formatted(call[c].now, LayoutTrimmed))
                   <=> ((call[c].now.nsec \div 1000000) % 10 # 0)

\* C16 witness: the last second of year 9999, with milliseconds ending in
\* zero, has been formatted
C16_Witness ==
    \E c \in Callers :
        /\ Active(c)
        /\ call[c].now.year = 9999
        /\ call[c].now.nsec = 120000000
        /\ TimeLiteral(c) = <<34, 57, 57, 57, 57, 45, 49, 50, 45, 51, 49, 84, 50, 51, 58, 53, 57, 58, 53, 57, 46, 49, 50, 48, 90, 34>> (* \"9999-12-31T23:59:59.120Z\" *)

\* The decimal value the digits of lit at positions i..j stand for
RECURSIVE Number(_, _, _)
Number(lit, i, j) == IF j < i THEN 0 ELSE 10 * Number(lit, i, j - 1) + (lit[j] - 48)

\* lit is "YYYY-MM-DDTHH:MM:SS.mmmZ" in quotes, for the time now: separators
\* in place, every other position a digit, each group the value of its
\* component
FixedWidth(lit, now) ==
    /\ Len(lit) = 26
    /\ lit[1] = 34 /\ lit[26] = 34
    /\ lit[6] = 45 /\ lit[9] = 45 /\ lit[12] = 84 /\ lit[15] = 58 /\ lit[18] = 58
    /\ lit[21] = 46 /\ lit[25] = 90
    /\ \A i \in (2..24) \ {6, 9, 12, 15, 18, 21} : IsDigit(lit[i])
    /\ Number(lit, 2, 5) = now.year
    /\ Number(lit, 7, 8) = now.month
    /\ Number(lit, 10, 11) = now.day
    /\ Number(lit, 13, 14) = now.hour
    /\ Number(lit, 16, 17) = now.minute
    /\ Number(lit, 19, 20) = now.second
    /\ Number(lit, 22, 24) = now.nsec \div 1000000

\* C17 (as claimed): for every time with a year in 1000..9999 the fast
\* formatter appends a literal 24 bytes long with its quotes.
C17_TwentyFourWithQuotes ==
    \A c \in Callers : Active(c) => Len(TimeLiteral(c)) = 24

\* C17 (amended): for every time with a year in 1000..9999 the fast
\* formatter appends "YYYY-MM-DDTHH:MM:SS.mmmZ" in quotes, 24 bytes between
\* the quotes and 26 with them, every year, month, day, hour, minute, second
\* and millisecond position a digit of the zero-padded value of its
\* component, the milliseconds being the nanoseconds divided by 1000000 and
\* cut.
C17_FixedWidth ==
    \A c \in Callers :
        Active(c) =>
            /\ FixedWidth(TimeLiteral(c), call[c].now)
            /\ events[cur[c]].buf = <<123, 34, 116, 105, 109, 101, 34, 58>> (* {\"time\": *) \o TimeLiteral(c) \o LevelField(call[c].level)

\* C17 witness: a time with one-digit month, day, hour, minute and second
\* and with sub-millisecond digits has been formatted
C17_Witness ==
    \E c \in Callers :
        /\ Active(c)
        /\ call[c].now.year = 1000
        /\ call[c].now.nsec = 999999
        /\ TimeLiteral(c) = <<34, 49, 48, 48, 48, 45, 48, 49, 45, 48, 49, 84, 48, 57, 58, 48, 53, 58, 48, 55, 46, 48, 48, 48, 90, 34>> (* \"1000-01-01T09:05:07.000Z\" *)

-----------------------------------------------------------------------------
(* C18: raw newline bytes in a record.                                      *)

\* The number of newline bytes in s
Newlines(s) == Cardinality({i \in 1..Len(s) : s[i] = 10})

\* The newline bytes among what field call f of call k copies into the
\* buffer without escaping: its key, a RawJSON payload, the text of a custom
\* time layout, a file name
RawInField(k, f) ==
    CASE f.op = "RawJSON" -> Newlines(f.key) + Newlines(f.val)
      [] f.op = "Time" ->
             Newlines(f.key)
                 + (IF k.logger.TimeFormat = <<>> THEN 0
                    ELSE Newlines(AppendFormat(<<>>, f.val, k.logger.TimeFormat)))
      [] f.op = "Caller" -> Newlines(caller(<<>>, f.val))
      [] f.op \in {"Err", "Timestamp"} -> 0
      [] OTHER -> Newlines(f.key)

RECURSIVE RawInFields(_, _)
RawInFields(k, fs) ==
    IF fs = <<>> THEN 0 ELSE RawInField(k, Head(fs)) + RawInFields(k, Tail(fs))

\* The newline bytes among what call k copies without escaping
RawNewlines(k) ==
    Newlines(k.logger.TimeField)
        + (IF k.logger.TimeFormat = <<>> THEN 0
           ELSE Newlines(AppendFormat(<<>>, k.now, k.logger.TimeFormat)))
        + (IF k.logger.Caller THEN Newlines(caller(<<>>, k.ci)) ELSE 0)
        + RawInFields(k, k.fields)

\* C18 (as claimed): every record a terminal call writes holds exactly one
\* newline byte, its last byte, whatever the keys, string values, RawJSON
\* payloads and messages hold.
C18_OneNewline ==
    \A c \in Callers :
        JustWritten(c) =>
            /\ Newlines(Written(c)) = 1
            /\ Written(c)[Len(Written(c))] = 10

\* C18 (amended): every record a terminal call writes ends in a newline
\* byte, and its other newline bytes are exactly those of the keys, RawJSON
\* payloads, time field name, custom time layout text and file names of the
\* call, which are copied as they are; a newline in a string value, a byte
\* slice or a message is written as the two bytes \n. So the record holds
\* exactly one newline byte, its last, when none of the copied parts holds
\* one.
C18_OneNewlineUnlessCopied ==
    \A c \in Callers :
        JustWritten(c) =>
            /\ Written(c)[Len(Written(c))] = 10
            /\ Newlines(Written(c)) = 1 + RawNewlines(call[c])
            /\ RawNewlines(call[c]) = 0 => Newlines(Written(c)) = 1

\* C18 witness: a call that passed a newline in a string value and in its
\* message, and none in a key or a RawJSON payload, has written its record
C18_Witness ==
    \E c \in Callers :
        /\ JustWritten(c)
        /\ call[c].term.op = "Msg"
        /\ Newlines(call[c].term.msg) = 1
        /\ \E n \in 1..Len(call[c].fields) :
               call[c].fields[n].op = "Str" /\ Newlines(call[c].fields[n].val) = 1
        /\ RawNewlines(call[c]) = 0
        /\ Newlines(Written(c)) = 1

-----------------------------------------------------------------------------
(* C19: the stack capture. Specification SpecStacks: one call at Fatal,     *)
(* with stacks of every size around the sizes of the buffers.               *)

\* Sizes of the stacks to dump: below, at and above each buffer size of
\* either capture
StackSizes ==
    {0, 3000, 4000000}
        \cup UNION {{n - 1, n, 10 * n - 1, 10 * n} :
                       n \in {10000, 20000, 40000, 80000, 160000}}

NextStacks ==
    \/ ncalls[1] = 0 /\ Fatal(1, T0, NoCI)
    \/ Send(1)
    \/ \E need \in StackSizes : DumpStack(1, need)
    \/ \E need \in StackSizes : DumpAllStacks(1, need)
    \/ Exit(1)

SpecStacks == Init /\ [][NextStacks]_vars

\* The size of the buffer of try k of a capture whose first buffer has
\* `first` bytes
BufferSize(first, k) == first * (2 ^ (k - 1))

\* Stack dump w is what the capture that C19 describes returns
Captured(w) ==
    LET all == w.kind = "stacks"
        first == IF all THEN 100000 ELSE 10000
        r == stacks(all, w.full)
    IN  /\ r.tries \in 1..5
        /\ r.cap = BufferSize(first, r.tries)
        /\ \A k \in 1..(r.tries - 1) : w.full >= BufferSize(first, k)
        /\ w.len = r.len
        /\ IF w.full < r.cap
           THEN w.len = w.full
           ELSE r.tries = 5 /\ w.len = 16 * first /\ w.len <= w.full

\* C19: a stack capture makes at most 5 tries, the first with a buffer of
\* 10000 bytes (100000 for all stacks) and each later one with twice the
\* bytes, a later one only when the stacks filled the buffer before; it
\* returns the whole trace of the first try whose buffer the trace did not
\* fill, else the full buffer of the fifth try, 16 times the first size.
C19_StackCapture ==
    \A w \in Writers :
        \A i \in 1..Len(sink[w]) :
            sink[w][i].kind \in {"stack", "stacks"} => Captured(sink[w][i])

\* C19 witness: the process has exited after a capture that fit its third
\* buffer and a capture of all stacks that filled all five
C19_Witness ==
    \E w \in Writers :
        /\ exit # <<>>
        /\ Len(sink[w]) = 3
        /\ sink[w][2] = [kind |-> "stack", data |-> <<>>, len |-> 39999, full |-> 39999]
        /\ sink[w][3] = [kind |-> "stacks", data |-> <<>>, len |-> 1600000, full |-> 4000000]

-----------------------------------------------------------------------------
(* C20: the value Interface writes.                                         *)

\* The text Interface call f hands to the string escaper
InterfaceText(f) ==
    IF Failing(f) THEN <<109, 97, 114, 115, 104, 97, 108, 105, 110, 103, 32, 101, 114, 114, 111, 114, 58, 32>> (* marshaling error:  *) \o Marshal(f.val)[2][1]
    ELSE Marshal(f.val)[1]

\* C20: the value of every Interface entry is one JSON string literal, never
\* an object, array, number or literal: the text json.Marshal returned, or
\* "marshaling error: " and the error's message, put through the string
\* escaper with the event's HTML flag, so that it stands for that text and,
\* with the flag set, holds no "<", ">" or "&".
C20_InterfaceIsString ==
    \A c \in Callers :
        (cur[c] # NIL \/ pc[c] = "idle") =>
            \A n \in 1..Len(call[c].fields) :
                call[c].fields[n].op = "Interface" =>
                    LET k == call[c]
                        f == k.fields[n]
                        lit == ValueOf(k, f)
                    IN  /\ Piece(k, f) = <<44, 34>> (* ,\" *) \o f.key \o <<34, 58>> (* \": *) \o lit
                        /\ lit = string(<<>>, InterfaceText(f), k.logger.EscapeHTML)
                        /\ IsJSONString(lit)
                        /\ Decoded(lit) = InterfaceText(f)
                        /\ k.logger.EscapeHTML => NoHTML(lit)
                        /\ Active(c) => events[cur[c]].buf = Assembled(k)
                        /\ pc[c] = "put" => StartsWith(Written(c), Assembled(k))

\* C20 witness: a call on an HTML-escaping Logger has appended a map and a
\* string through Interface, both marshaled without error, and written its
\* record
C20_Witness ==
    \E c \in Callers :
        /\ pc[c] = "put"
        /\ call[c].logger.EscapeHTML
        /\ Len(call[c].fields) = 2
        /\ call[c].fields[1] = [op |-> "Interface", key |-> <<118>> (* v *), val |-> "map"]
        /\ call[c].fields[2] = [op |-> "Interface", key |-> <<118>> (* v *), val |-> "a<b"]
        /\ ValueOf(call[c], call[c].fields[1]) = <<34, 123, 92, 34, 97, 92, 34, 58, 49, 125, 34>> (* \"{\\\"a\\\":1}\" *)
        /\ ValueOf(call[c], call[c].fields[2]) = <<34, 92, 34, 97, 92, 92, 117, 48, 48, 51, 99, 98, 92, 34, 34>> (* \"\\\"a\\\\u003cb\\\"\" *)

====
